---- MODULE Spec2Model ----
(***************************************************************************)
(* Model of the snowfight server: the shared spatial Grid (grid.cpp), the  *)
(* GameObject operations (game_object.cpp) and the per-worker handlers and *)
(* tick loops (server_worker.cpp).                                         *)
(*                                                                         *)
(* Numbers.  Every C++ double (positions, velocities, sizes) is held as a  *)
(* fixed-point integer in thousandths, so that the projection              *)
(* x + vx * (elapsed / 1000.0) is exact and static_cast<int> is a real     *)
(* truncation.  Times are milliseconds.  TLC's integers are 32 bits wide,  *)
(* so the wall clock counts from ClockStart instead of from the epoch and  *)
(* the player life length 4e18 is held as LIFE_FOREVER.                    *)
(***************************************************************************)
EXTENDS Integers, Sequences, FiniteSets, TLC

VARIABLES
    now,             \* the wall clock (system_clock::now), in ms
    heap,            \* ref -> GameObject: the objects some shared_ptr keeps alive
    cells,           \* Grid::cells_: the set of <<row, col, ref>> memberships
    conn,            \* connection -> [st, worker]: the socket's life and its worker
    thread_clients,  \* worker -> set of connections (thread_local thread_clients)
    thread_objects,  \* worker -> (snowball id -> ref) (thread_local thread_objects)
    sent,            \* the frames the last handler or tick sent, in order
    frames,          \* number of inbound frames handled so far
    lock,            \* the held shared_mutexes: <<row, col, worker, "unique" or "shared">>
    call,            \* worker -> the Grid call it is executing (SpecGrid)
    running          \* whether the server process runs (FALSE after std::terminate)

vars == <<now, heap, cells, conn, thread_clients, thread_objects, sent, frames,
          lock, call, running>>

----------------------------------------------------------------------------
(* Program constants *)

GRID_HEIGHT == 1600
GRID_WIDTH == 1600
CELL_SIZE == 100
FIXED_VIEW_WIDTH == 1600
FIXED_VIEW_HEIGHT == 900
Milli == 1000
DEATH_GRACE_MS == 1000
DEFAULT_LIFE_LENGTH == 1000
\* stands for (long long)(4e18): larger than every time the model reaches
LIFE_FOREVER == 1000000000
npos == -1
PLAYER_TICK_MS == 10
OBJECT_TICK_MS == 30

(* Bounds of the model *)
MaxFrames == 3
MaxClock == 1

Workers == {"w1", "w2"}
Conns == {"c1", "c2"}

\* The clock moves in steps of ClockStep ms (40 periods of the object timer);
\* it starts after the default life length has passed since time 0, as it
\* has on any real wall clock.
ClockStep == 40 * OBJECT_TICK_MS
ClockStart == 2 * DEFAULT_LIFE_LENGTH

----------------------------------------------------------------------------
(* Strings are sequences of characters. *)

Str_snowball == <<"s", "n", "o", "w", "b", "a", "l", "l">>
Str_unknown == <<"u", "n", "k", "n", "o", "w", "n">>
Str_not_snowball == <<"n", "o", "t", "_", "s", "n", "o", "w", "b", "a", "l", "l">>

\* std::string::find(ch, from): the first 0-based index >= from holding ch
Find(s, ch, from) ==
    LET hits == {i \in 0..(Len(s) - 1) : i >= from /\ s[i + 1] = ch}
    IN IF hits = {} THEN npos
       ELSE CHOOSE i \in hits : \A j \in hits : i <= j

\* std::string::substr(pos, n)
Substr(s, pos, n) ==
    LET last == IF pos + n > Len(s) THEN Len(s) ELSE pos + n
    IN [i \in 1..(last - pos) |-> s[pos + i]]

\* size_t arithmetic: npos + 1 wraps to 0
ExtractPlayerId(snowballId) ==
    LET firstUnderscore == Find(snowballId, "_", 0)
        secondUnderscore == Find(snowballId, "_", firstUnderscore + 1)
    IN IF firstUnderscore = npos \/ secondUnderscore = npos
       THEN Str_not_snowball
       ELSE Substr(snowballId, firstUnderscore + 1,
                   secondUnderscore - firstUnderscore - 1)

----------------------------------------------------------------------------
(* Integer helpers *)

\* C++ integer division and static_cast<int>: truncation toward zero
TruncDiv(a, b) == IF a >= 0 THEN a \div b ELSE -((-a) \div b)

StaticCastInt(d) == TruncDiv(d, Milli)

Max(a, b) == IF a >= b THEN a ELSE b

Abs(a) == IF a >= 0 THEN a ELSE -a

----------------------------------------------------------------------------
(* GameObject *)

PlayerRef(c) == <<"p", c>>

\* GameObject::GameObject(): the fields' initial values.  died_at, hit,
\* dead_hits, dead_once and dead_twice are history fields, not fields of the
\* class: the time is_dead became true, the Player a Snowball collided with,
\* the number of hit frames with isDead = true sent for a Player, and the
\* connections that were sent a dead Player in a batch_update once and more
\* than once, the timeUpdate and lifeLength the last movement frame of a
\* Snowball declared, and the position the last movement frame of a Player
\* carried (none since its last accepted join: <<>>) with the connections
\* that were sent a batch_update since that frame.
NewGameObject(type, id) ==
    [type |-> type, id |-> id, username |-> Str_unknown,
     x |-> 0, y |-> 0, vx |-> 0, vy |-> 0, size |-> 1 * Milli,
     row |-> 0, col |-> 0, health |-> 100, damage |-> 0,
     time_update |-> 0, life_length |-> DEFAULT_LIFE_LENGTH,
     is_dead |-> FALSE, charging |-> FALSE, died_at |-> 0, hit |-> <<>>,
     dead_hits |-> 0, dead_once |-> {}, dead_twice |-> {},
     frame_time_update |-> 0, frame_life_length |-> DEFAULT_LIFE_LENGTH,
     frame_pos |-> <<>>, batched |-> {}]

\* get_cur_x: Snowball overrides it with the projection, Player keeps x_
get_cur_x(o, current_time) ==
    IF o.type = "snowball"
    THEN o.x + (o.vx * (current_time - o.time_update)) \div Milli
    ELSE o.x

get_cur_y(o, current_time) ==
    IF o.type = "snowball"
    THEN o.y + (o.vy * (current_time - o.time_update)) \div Milli
    ELSE o.y

Expired(o, current_time) ==
    current_time - o.time_update > o.life_length

\* distance_square < size_sum * size_sum, computed without leaving 32 bits
Overlap(x_diff, y_diff, size_sum) ==
    /\ Abs(x_diff) < size_sum
    /\ Abs(y_diff) < size_sum
    /\ x_diff * x_diff + y_diff * y_diff < size_sum * size_sum

\* a collision test that does not look at is_dead
CollideHitsWhenDead(o, obj, current_time) ==
    Overlap(get_cur_x(obj, current_time) - get_cur_x(o, current_time),
            get_cur_y(obj, current_time) - get_cur_y(o, current_time),
            obj.size + o.size)

\* GameObject::Collide: whether o (not yet dead) overlaps obj at current_time
CollideHits(o, obj, current_time) ==
    /\ ~o.is_dead
    /\ Overlap(get_cur_x(obj, current_time) - get_cur_x(o, current_time),
               get_cur_y(obj, current_time) - get_cur_y(o, current_time),
               obj.size + o.size)

\* the Collide of the older revision: it marks the object dead and leaves
\* time_update and life_length alone
CollideNoGrace(o, obj, current_time) ==
    IF CollideHits(o, obj, current_time)
    THEN [o EXCEPT !.is_dead = TRUE, !.died_at = current_time]
    ELSE o

\* GameObject::Collide: the object after the call
Collide(o, obj, current_time) ==
    IF CollideHits(o, obj, current_time)
    THEN [o EXCEPT !.is_dead = TRUE, !.time_update = current_time,
                   !.life_length = DEATH_GRACE_MS, !.died_at = current_time]
    ELSE o

\* a Hurt that marks the object dead without starting the grace window
HurtNoGrace(o, damage, current_time) ==
    LET health == Max(o.health - damage, 0)
    IN IF health = 0
       THEN [o EXCEPT !.health = health, !.is_dead = TRUE,
                      !.died_at = IF o.is_dead THEN o.died_at ELSE current_time]
       ELSE [o EXCEPT !.health = health]

\* GameObject::Hurt: the object after the call; the caller sends the hit
\* frame with SendMessageToClient
Hurt(o, damage, current_time) ==
    LET health == Max(o.health - damage, 0)
    IN IF health = 0
       THEN [o EXCEPT !.health = health, !.is_dead = TRUE,
                      !.time_update = current_time,
                      !.life_length = DEATH_GRACE_MS,
                      !.died_at = IF o.is_dead THEN o.died_at ELSE current_time]
       ELSE [o EXCEPT !.health = health]

\* a ToJson that reports every object as alive
ToJsonAlive(o, current_time, messageType) ==
    [id |-> o.id, messageType |-> messageType, objectType |-> o.type,
     username |-> o.username,
     x |-> get_cur_x(o, current_time), y |-> get_cur_y(o, current_time),
     vx |-> o.vx, vy |-> o.vy, size |-> o.size, charging |-> o.charging,
     expireDate |-> current_time + o.life_length, isDead |-> FALSE,
     timeUpdate |-> o.time_update, newHealth |-> o.health]

\* GameObject::ToJson / ToMsgPack: the outbound record of an object
ToJson(o, current_time, messageType) ==
    [id |-> o.id, messageType |-> messageType, objectType |-> o.type,
     username |-> o.username,
     x |-> get_cur_x(o, current_time), y |-> get_cur_y(o, current_time),
     vx |-> o.vx, vy |-> o.vy, size |-> o.size, charging |-> o.charging,
     expireDate |-> current_time + o.life_length, isDead |-> o.is_dead,
     timeUpdate |-> o.time_update, newHealth |-> o.health]

----------------------------------------------------------------------------
(* Grid.  A store st is [heap, cells]; each operation returns the store    *)
(* after the call.                                                         *)

rows_ == (GRID_HEIGHT - 1) \div CELL_SIZE + 1
cols_ == (GRID_WIDTH - 1) \div CELL_SIZE + 1

\* the bounds check of Insert, Remove, Update and Search
InGrid(row, col) == ~(row >= rows_ \/ col >= cols_ \/ row < 0 \/ col < 0)

RowOf(y) == TruncDiv(StaticCastInt(y), CELL_SIZE)
ColOf(x) == TruncDiv(StaticCastInt(x), CELL_SIZE)

CellInsert(cs, row, col, ref) == cs \cup {<<row, col, ref>>}

CellRemove(cs, row, col, ref) == cs \ {<<row, col, ref>>}

GridInsert(st, ref) ==
    LET obj == st.heap[ref]
        row == RowOf(obj.y)
        col == ColOf(obj.x)
    IN IF ~InGrid(row, col) THEN st
       ELSE [heap |-> [st.heap EXCEPT ![ref].row = row, ![ref].col = col],
             cells |-> CellInsert(st.cells, row, col, ref)]

\* a Remove that leaves the cell as it is
GridRemoveNothing(st, ref) == st

GridRemove(st, ref) ==
    LET row == st.heap[ref].row
        col == st.heap[ref].col
    IN IF ~InGrid(row, col) THEN st
       ELSE [st EXCEPT !.cells = CellRemove(st.cells, row, col, ref)]

\* a re-anchoring that keeps life_length as it is
UpdateReanchorKeepsLife(obj, new_row, new_col, cur_x, cur_y, current_time) ==
    [obj EXCEPT !.row = new_row, !.col = new_col,
                !.x = cur_x * Milli, !.y = cur_y * Milli,
                !.time_update = current_time]

\* the assignments Update makes between its Remove and its Insert
UpdateReanchor(obj, new_row, new_col, cur_x, cur_y, current_time) ==
    [obj EXCEPT !.row = new_row, !.col = new_col,
                !.x = cur_x * Milli, !.y = cur_y * Milli,
                !.life_length = obj.life_length - (current_time - obj.time_update),
                !.time_update = current_time]

\* an Update that inserts the object into its new cell and leaves it in
\* the old one
GridUpdateNoRemove(st, ref, current_time) ==
    LET obj == st.heap[ref]
        cur_y == StaticCastInt(get_cur_y(obj, current_time))
        cur_x == StaticCastInt(get_cur_x(obj, current_time))
        new_row == TruncDiv(cur_y, CELL_SIZE)
        new_col == TruncDiv(cur_x, CELL_SIZE)
    IN IF ~InGrid(new_row, new_col) THEN st
       ELSE IF obj.row # new_row \/ obj.col # new_col
       THEN GridInsert([st EXCEPT !.heap[ref] =
                           UpdateReanchor(obj, new_row, new_col, cur_x, cur_y,
                                          current_time)], ref)
       ELSE st

GridUpdate(st, ref, current_time) ==
    LET obj == st.heap[ref]
        cur_y == StaticCastInt(get_cur_y(obj, current_time))
        cur_x == StaticCastInt(get_cur_x(obj, current_time))
        new_row == TruncDiv(cur_y, CELL_SIZE)
        new_col == TruncDiv(cur_x, CELL_SIZE)
    IN IF ~InGrid(new_row, new_col) THEN st
       ELSE IF obj.row # new_row \/ obj.col # new_col
       THEN LET removed == GridRemove(st, ref)
                moved == [removed EXCEPT !.heap[ref] =
                             UpdateReanchor(obj, new_row, new_col, cur_x, cur_y,
                                            current_time)]
            IN GridInsert(moved, ref)
       ELSE st

\* the loop bounds of Search
SearchRows(lower_y, upper_y) ==
    TruncDiv(StaticCastInt(lower_y), CELL_SIZE) ..
        TruncDiv(StaticCastInt(upper_y), CELL_SIZE)

\* the loop over the columns with c < right_col for c <= right_col
SearchColsShort(left_x, right_x) ==
    TruncDiv(StaticCastInt(left_x), CELL_SIZE) ..
        TruncDiv(StaticCastInt(right_x), CELL_SIZE) - 1

SearchCols(left_x, right_x) ==
    TruncDiv(StaticCastInt(left_x), CELL_SIZE) ..
        TruncDiv(StaticCastInt(right_x), CELL_SIZE)

\* the memberships Search visits: the cells of the rectangle that are in the grid
SearchEntries(cs, lower_y, upper_y, left_x, right_x) ==
    {e \in cs : /\ e[1] \in SearchRows(lower_y, upper_y)
                /\ e[2] \in SearchCols(left_x, right_x)
                /\ InGrid(e[1], e[2])}

\* row-major order of the cells, as the two nested loops visit them
CellBefore(e, f) == e[1] < f[1] \/ (e[1] = f[1] /\ e[2] < f[2])

\* every order in which Search can return entries: cells in loop order, the
\* members of one cell in any order (unordered_set iteration)
RECURSIVE SearchOrders(_)
SearchOrders(E) ==
    IF E = {} THEN {<<>>}
    ELSE UNION {{<<e[3]>> \o q : q \in SearchOrders(E \ {e})} :
                e \in {m \in E : \A f \in E : ~CellBefore(f, m)}}

\* Grid::Search: the vectors the call may return
GridSearch(cs, lower_y, upper_y, left_x, right_x) ==
    SearchOrders(SearchEntries(cs, lower_y, upper_y, left_x, right_x))

----------------------------------------------------------------------------
(* The inputs of the model: what the clients send.                         *)

\* each client's player id (load_test.js builds ids with underscores)
ClientId == [c \in Conns |-> IF c = "c1" THEN <<"p", "_", "1">> ELSE <<"B">>]

\* the id of the snowballs a client throws: snowball_<playerId>_<seq>
SnowballIdOf(playerId) == Str_snowball \o <<"_">> \o playerId \o <<"_", "1">>

Pos(x, y) == [x |-> x * Milli, y |-> y * Milli]

Throw(x, vx, damage, lifeLength) ==
    [x |-> x * Milli, y |-> 50 * Milli, vx |-> vx * Milli, vy |-> 0,
     size |-> 5 * Milli, damage |-> damage, lifeLength |-> lifeLength]

\* Client c1 sends every kind of frame the claims are about; client c2 is
\* the other player: it joins next to c1 and throws at c1's position.

\* join positions: two cells of the world, left of it, on its right edge
JoinPositions(c) ==
    IF c = "c1"
    THEN {Pos(50, 50), Pos(150, 50), Pos(-5, 50), Pos(GRID_WIDTH, 50)}
    ELSE {Pos(150, 50)}

\* explicit positions of player movement frames
MovePositions(c) ==
    IF c = "c1"
    THEN {Pos(150, 50), Pos(-50, 50), Pos(GRID_WIDTH + 50, 50)}
    ELSE {}

\* snowball movement frames
Throws(c) ==
    IF c = "c1"
    THEN {Throw(50, 250, 10, 1000), Throw(50, 0, 100, 5000),
          Throw(-50, 0, 10, 5000), Throw(-150, 250, 10, 5000),
          Throw(50, 0, -10, 5000)}
    ELSE {Throw(50, 0, 10, 5000), Throw(50, 0, 100, 5000)}

----------------------------------------------------------------------------
(* Worker state and helpers *)

Store(h, cs) == [heap |-> h, cells |-> cs]

IsIndexed(cs, ref) == \E e \in cs : e[3] = ref

CellsOf(cs, ref) == {<<e[1], e[2]>> : e \in {m \in cs : m[3] = ref}}

MapRefs(objs) == UNION {{objs[w][id] : id \in DOMAIN objs[w]} : w \in Workers}

\* shared_ptr: an object lives while a connection, a map or a cell refers to it
Live(h, cs, cn, objs) ==
    LET keep == {r \in DOMAIN h :
                    \/ \E c \in Conns : r = PlayerRef(c) /\ cn[c].st = "open"
                    \/ r \in MapRefs(objs)
                    \/ IsIndexed(cs, r)}
    IN [r \in keep |-> h[r]]

\* std::make_shared: a reference no live object has
FreshRef(h) ==
    LET used == {r[2] : r \in {q \in DOMAIN h : q[1] = "s"}}
        n == CHOOSE k \in 1..(Cardinality(used) + 1) : ToString(k) \notin used
    IN <<"s", ToString(n)>>

\* a frame sent on connection c.  by is a history field: the id of the
\* snowball a hit frame is due to, the objects a batch_update reports
Frame(c, msg, by) == [to |-> c, msg |-> msg, by |-> by]

\* every order in which a range-for may visit an unordered container
RECURSIVE IterationOrders(_)
IterationOrders(S) ==
    IF S = {} THEN {<<>>}
    ELSE UNION {{<<e>> \o q : q \in IterationOrders(S \ {e})} : e \in S}

----------------------------------------------------------------------------
(* Message handlers (server_worker.cpp).  Each returns the store after it. *)

\* a handleJoin without the test of the position against the world bounds
handleJoinUnchecked(st, ref, id, username, pos, health, size, time_update) ==
    GridInsert([st EXCEPT !.heap[ref].id = id,
                          !.heap[ref].username = username,
                          !.heap[ref].health = health,
                          !.heap[ref].x = pos.x,
                          !.heap[ref].y = pos.y,
                          !.heap[ref].size = size,
                          !.heap[ref].time_update = time_update,
                          !.heap[ref].life_length = LIFE_FOREVER],
               ref)

\* handleJoin
handleJoin(st, ref, id, username, pos, health, size, time_update) ==
    LET named == [st EXCEPT !.heap[ref].id = id, !.heap[ref].username = username]
    IN IF pos.x < 0 \/ pos.y < 0 \/ pos.x > GRID_WIDTH * Milli
          \/ pos.y > GRID_HEIGHT * Milli
       THEN named
       ELSE GridInsert([named EXCEPT !.heap[ref].health = health,
                                     !.heap[ref].x = pos.x,
                                     !.heap[ref].y = pos.y,
                                     !.heap[ref].size = size,
                                     !.heap[ref].time_update = time_update,
                                     !.heap[ref].life_length = LIFE_FOREVER,
                                     !.heap[ref].frame_pos = <<>>,
                                     !.heap[ref].batched = {}],
                       ref)

\* a player branch that stores the position and leaves the Grid alone
handleMovementPlayerNoUpdate(st, ref, pos, time_update) ==
    [st EXCEPT !.heap[ref].x = pos.x, !.heap[ref].y = pos.y,
               !.heap[ref].time_update = time_update,
               !.heap[ref].frame_pos = pos,
               !.heap[ref].batched = {}]

\* handleMovement, objectType "player": position is the explicit position
\* of the frame, or the player's own position when the frame has none
handleMovementPlayer(st, ref, pos, time_update) ==
    GridUpdate([st EXCEPT !.heap[ref].x = pos.x, !.heap[ref].y = pos.y,
                          !.heap[ref].time_update = time_update,
                          !.heap[ref].frame_pos = pos,
               !.heap[ref].batched = {}],
               ref, 0)

\* handleMovement, objectType "snowball": the fields the frame overwrites
SnowballFields(o, t, time_update) ==
    [o EXCEPT !.x = t.x, !.y = t.y, !.vx = t.vx, !.vy = t.vy, !.size = t.size,
              !.time_update = time_update, !.life_length = t.lifeLength,
              !.charging = FALSE, !.damage = t.damage,
              !.frame_time_update = time_update,
              !.frame_life_length = t.lifeLength]

\* a snowball branch that calls Grid::Insert for every frame
handleMovementSnowballAlwaysInsert(st, objs, snowball_id, t, time_update) ==
    LET ref == IF snowball_id \in DOMAIN objs THEN objs[snowball_id]
               ELSE FreshRef(st.heap)
        before == IF snowball_id \in DOMAIN objs THEN st.heap[ref]
                  ELSE NewGameObject("snowball", snowball_id)
        h == [r \in DOMAIN st.heap \cup {ref} |->
                 IF r = ref THEN SnowballFields(before, t, time_update)
                 ELSE st.heap[r]]
    IN [st |-> GridInsert([st EXCEPT !.heap = h], ref),
        objs |-> [i \in DOMAIN objs \cup {snowball_id} |->
                     IF i = snowball_id THEN ref ELSE objs[i]]]

\* handleMovement, objectType "snowball", on the map objs of the worker:
\* the store and the map after the frame
handleMovementSnowball(st, objs, snowball_id, t, time_update) ==
    IF snowball_id \notin DOMAIN objs
    THEN LET ref == FreshRef(st.heap)
             made == SnowballFields(NewGameObject("snowball", snowball_id),
                                    t, time_update)
             h == [r \in DOMAIN st.heap \cup {ref} |->
                      IF r = ref THEN made ELSE st.heap[r]]
         IN [st |-> GridInsert([st EXCEPT !.heap = h], ref),
             objs |-> [i \in DOMAIN objs \cup {snowball_id} |->
                          IF i = snowball_id THEN ref ELSE objs[i]]]
    ELSE [st |-> [st EXCEPT !.heap[objs[snowball_id]] =
                     SnowballFields(st.heap[objs[snowball_id]], t, time_update)],
          objs |-> objs]

----------------------------------------------------------------------------
(* The view tick (HandleThreadClients, UpdatePlayerView).  A tick state ts *)
(* is [heap, cells, clients, out]: the store, the worker's client set and  *)
(* the frames sent so far.                                                 *)

\* whether the first pass of UpdatePlayerView applies obj's damage to player
Damages(obj, player, current_time) ==
    /\ obj.damage # 0
    /\ ExtractPlayerId(obj.id) # player.id
    /\ CollideHits(obj, player, current_time)

\* a first pass that skips no neighbour as the player themselves
IsSelfNever(obj, player) == FALSE

\* UpdatePlayerView, first pass: "Skip the player themselves"
IsSelf(obj, player) == obj.id = player.id

\* a loop that sends dead objects without looking at their grace window
IsDeadAndExpiredNever(obj, current_time) == FALSE

\* UpdatePlayerView skips dead objects whose grace window is over:
\* recently dead objects are sent so that clients can see the death state
IsDeadAndExpired(obj, current_time) ==
    obj.is_dead /\ Expired(obj, current_time)

\* UpdatePlayerView, first pass: the neighbours from index i on; acc is
\* [heap, valid, out]
RECURSIVE FirstPass(_, _, _, _, _, _)
FirstPass(acc, c, pref, neighbors, i, current_time) ==
    IF i > Len(neighbors) THEN acc
    ELSE LET r == neighbors[i]
             obj == acc.heap[r]
             player == acc.heap[pref]
         IN IF IsSelf(obj, player)
            THEN FirstPass(acc, c, pref, neighbors, i + 1, current_time)
            ELSE IF IsDeadAndExpired(obj, current_time)
            THEN FirstPass(acc, c, pref, neighbors, i + 1, current_time)
            ELSE IF Damages(obj, player, current_time)
            THEN LET hurt == Hurt(player, obj.damage, current_time)
                     h == [acc.heap EXCEPT
                              ![r] = [Collide(obj, player, current_time)
                                         EXCEPT !.hit = pref],
                              ![pref] = [hurt EXCEPT !.dead_hits =
                                            IF hurt.is_dead THEN @ + 1 ELSE @]]
                 IN FirstPass([acc EXCEPT
                                  !.heap = h,
                                  !.out = Append(acc.out,
                                      Frame(c, ToJson(hurt, current_time, "hit"),
                                            obj.id))],
                              c, pref, neighbors, i + 1, current_time)
            ELSE FirstPass([acc EXCEPT !.valid = Append(acc.valid, r)],
                           c, pref, neighbors, i + 1, current_time)

\* the batch_update message: second pass over the valid objects
BatchUpdate(h, valid, current_time) ==
    [messageType |-> "batch_update", timestamp |-> current_time,
     updates |-> [k \in 1..Len(valid) |->
                     ToJson(h[valid[k]], current_time, "movement")]]

\* UpdatePlayerView for one order of the neighbours Search returned
UpdatePlayerViewWith(ts, c, neighbors, current_time) ==
    LET pref == PlayerRef(c)
        acc == FirstPass([heap |-> ts.heap, valid |-> <<>>, out |-> ts.out],
                         c, pref, neighbors, 1, current_time)
        deadSent == {acc.valid[k] : k \in 1..Len(acc.valid)}
        h == [r \in DOMAIN acc.heap |->
                 IF r \in deadSent /\ acc.heap[r].is_dead
                                   /\ acc.heap[r].type = "player"
                 THEN [acc.heap[r] EXCEPT
                          !.dead_twice = IF c \in acc.heap[r].dead_once
                                         THEN @ \cup {c} ELSE @,
                          !.dead_once = @ \cup {c}]
                 ELSE acc.heap[r]]
        hb == [r \in DOMAIN h |->
                  IF r # pref /\ h[r].frame_pos # <<>>
                  THEN [h[r] EXCEPT !.batched = @ \cup {c}]
                  ELSE h[r]]
    IN [ts EXCEPT !.heap = hb,
                  !.out = Append(acc.out,
                             Frame(c, BatchUpdate(acc.heap, acc.valid, current_time),
                                   acc.valid))]

\* UpdatePlayerView: the tick states the call may end in
UpdatePlayerView(ts, c, current_time) ==
    LET p == ts.heap[PlayerRef(c)]
        lower_y == p.y - FIXED_VIEW_HEIGHT * Milli
        upper_y == lower_y + 2 * FIXED_VIEW_HEIGHT * Milli
        left_x == p.x - FIXED_VIEW_WIDTH * Milli
        right_x == left_x + 2 * FIXED_VIEW_WIDTH * Milli
    IN {UpdatePlayerViewWith(ts, c, nb, current_time) :
           nb \in GridSearch(ts.cells, lower_y, upper_y, left_x, right_x)}

\* what the loop of HandleThreadClients does after finding a dead player:
\* TRUE when it leaves the loop
DeadPlayerEndsTick == TRUE

\* HandleThreadClients: the loop over clients_copy from index i on
RECURSIVE ClientsLoop(_, _, _, _)
ClientsLoop(ts, order, i, current_time) ==
    IF i > Len(order) THEN {ts}
    ELSE LET c == order[i]
             p == ts.heap[PlayerRef(c)]
         IN IF p.is_dead
            THEN LET erased == [ts EXCEPT !.clients = ts.clients \ {c}]
                 IN IF DeadPlayerEndsTick THEN {erased}
                    ELSE ClientsLoop(erased, order, i + 1, current_time)
            ELSE IF Expired(p, current_time)
            THEN LET st == GridRemove(Store(ts.heap, ts.cells), PlayerRef(c))
                 IN ClientsLoop([ts EXCEPT !.heap = st.heap, !.cells = st.cells],
                                order, i + 1, current_time)
            ELSE UNION {ClientsLoop(t2, order, i + 1, current_time) :
                           t2 \in UpdatePlayerView(ts, c, current_time)}

\* HandleThreadClients: the tick states one view tick may end in
HandleThreadClients(ts, current_time) ==
    UNION {ClientsLoop(ts, order, 1, current_time) :
              order \in IterationOrders(ts.clients)}

----------------------------------------------------------------------------
(* The object tick (HandleThreadObjects) *)

\* a to_remove that collects the dead snowballs only
ToRemoveDeadOnly(h, objs, current_time) ==
    {id \in DOMAIN objs : h[objs[id]].is_dead}

\* the ids the loop puts into to_remove
ToRemove(h, objs, current_time) ==
    {id \in DOMAIN objs :
        h[objs[id]].is_dead \/ Expired(h[objs[id]], current_time)}

\* a loop that leaves the Grid alone
ObjectsLoopNoGrid(st, objs, ids, current_time) == st

\* the loop over thread_objects: ids is what is left to visit
RECURSIVE ObjectsLoop(_, _, _, _)
ObjectsLoop(st, objs, ids, current_time) ==
    IF ids = {} THEN st
    ELSE LET id == CHOOSE i \in ids : TRUE
             ref == objs[id]
             next == IF id \in ToRemove(st.heap, objs, current_time)
                     THEN GridRemove(st, ref)
                     ELSE GridUpdate(st, ref, current_time)
         IN ObjectsLoop(next, objs, ids \ {id}, current_time)

\* HandleThreadObjects: the store and the map after the tick
HandleThreadObjects(st, objs, current_time) ==
    LET gone == ToRemove(st.heap, objs, current_time)
    IN [st |-> ObjectsLoop(st, objs, DOMAIN objs, current_time),
        objs |-> [id \in DOMAIN objs \ gone |-> objs[id]]]

----------------------------------------------------------------------------
(* Spec: the workers' callbacks and ticks, each run to completion.         *)

\* no shared_mutex is held
NoLocks == {}

\* the record of a worker that executes no Grid call.  stable, seen and
\* at_start are history fields of a Search call.
IdleCall ==
    [op |-> "none", pc |-> "idle", ref |-> <<>>, row |-> 0, col |-> 0,
     rect |-> <<>>, r |-> 0, c |-> 0, all |-> <<>>,
     stable |-> {}, seen |-> {}, at_start |-> {}]

NoCalls == [w \in Workers |-> IdleCall]

Init ==
    /\ now = ClockStart
    /\ heap = [r \in {} |-> 0]
    /\ cells = {}
    /\ conn = [c \in Conns |-> [st |-> "new", worker |-> "none"]]
    /\ thread_clients = [w \in Workers |-> {}]
    /\ thread_objects = [w \in Workers |-> [i \in {} |-> 0]]
    /\ sent = <<>>
    /\ frames = 0
    /\ lock = NoLocks
    /\ call = NoCalls
    /\ running = TRUE

\* the workers are interchangeable until one accepts a connection: the
\* worker that accepts c1 is called w1
CanOpen(c, w) == conn[c].st = "new" /\ (c = "c1" => w = "w1")

\* .open: a fresh Player, recorded in the worker's client set
Open(c, w) ==
    /\ CanOpen(c, w)
    /\ conn' = [conn EXCEPT ![c] = [st |-> "open", worker |-> w]]
    /\ heap' = [r \in DOMAIN heap \cup {PlayerRef(c)} |->
                   IF r = PlayerRef(c) THEN NewGameObject("player", Str_unknown)
                   ELSE heap[r]]
    /\ thread_clients' = [thread_clients EXCEPT ![w] = @ \cup {c}]
    /\ sent' = <<>>
    /\ UNCHANGED <<now, cells, thread_objects, frames, lock, call, running>>

\* .close: Grid::Remove of the player, then the connection is forgotten
Close(c) ==
    /\ conn[c].st = "open"
    /\ LET st == GridRemove(Store(heap, cells), PlayerRef(c))
           cn == [conn EXCEPT ![c].st = "closed"]
       IN /\ conn' = cn
          /\ cells' = st.cells
          /\ heap' = Live(st.heap, st.cells, cn, thread_objects)
    /\ thread_clients' = [thread_clients EXCEPT ![conn[c].worker] = @ \ {c}]
    /\ sent' = <<>>
    /\ UNCHANGED <<now, thread_objects, frames, lock, call, running>>

CanReceive(c) == conn[c].st = "open" /\ frames < MaxFrames

\* .message, type "join"
Join(c, pos) ==
    /\ CanReceive(c)
    /\ LET st == handleJoin(Store(heap, cells), PlayerRef(c), ClientId[c],
                            ClientId[c], pos, 100, 20 * Milli, now)
       IN heap' = st.heap /\ cells' = st.cells
    /\ frames' = frames + 1
    /\ sent' = <<>>
    /\ UNCHANGED <<now, conn, thread_clients, thread_objects, lock, call, running>>

\* .message, type "movement", objectType "player", with a position
MovePlayer(c, pos) ==
    /\ CanReceive(c)
    /\ LET st == handleMovementPlayer(Store(heap, cells), PlayerRef(c), pos, now)
       IN heap' = st.heap /\ cells' = st.cells
    /\ frames' = frames + 1
    /\ sent' = <<>>
    /\ UNCHANGED <<now, conn, thread_clients, thread_objects, lock, call, running>>

\* .message, type "movement", objectType "snowball"
MoveSnowball(c, t) ==
    /\ CanReceive(c)
    /\ LET w == conn[c].worker
           r == handleMovementSnowball(Store(heap, cells), thread_objects[w],
                                       SnowballIdOf(ClientId[c]), t, now)
       IN /\ heap' = r.st.heap
          /\ cells' = r.st.cells
          /\ thread_objects' = [thread_objects EXCEPT ![w] = r.objs]
    /\ frames' = frames + 1
    /\ sent' = <<>>
    /\ UNCHANGED <<now, conn, thread_clients, lock, call, running>>

\* the player timer fires on worker w
ViewTick(w) ==
    /\ \E ts \in HandleThreadClients(
                    [heap |-> heap, cells |-> cells,
                     clients |-> thread_clients[w], out |-> <<>>], now) :
          /\ heap' = ts.heap
          /\ cells' = ts.cells
          /\ thread_clients' = [thread_clients EXCEPT ![w] = ts.clients]
          /\ sent' = ts.out
    /\ UNCHANGED <<now, conn, thread_objects, frames, lock, call, running>>

\* the object timer fires on worker w
ObjectTick(w) ==
    /\ LET r == HandleThreadObjects(Store(heap, cells), thread_objects[w], now)
           objs == [thread_objects EXCEPT ![w] = r.objs]
       IN /\ thread_objects' = objs
          /\ cells' = r.st.cells
          /\ heap' = Live(r.st.heap, r.st.cells, conn, objs)
    /\ sent' = <<>>
    /\ UNCHANGED <<now, conn, thread_clients, frames, lock, call, running>>

\* time passes
AdvanceClock ==
    /\ now < ClockStart + MaxClock * ClockStep
    /\ now' = now + ClockStep
    /\ sent' = <<>>
    /\ UNCHANGED <<heap, cells, conn, thread_clients, thread_objects, frames,
                   lock, call, running>>

Next ==
    \/ \E c \in Conns, w \in Workers : Open(c, w)
    \/ \E c \in Conns : Close(c)
    \/ \E c \in Conns : \E pos \in JoinPositions(c) : Join(c, pos)
    \/ \E c \in Conns : \E pos \in MovePositions(c) : MovePlayer(c, pos)
    \/ \E c \in Conns : \E t \in Throws(c) : MoveSnowball(c, t)
    \/ \E w \in Workers : ViewTick(w)
    \/ \E w \in Workers : ObjectTick(w)
    \/ AdvanceClock

Spec == Init /\ [][Next]_vars

----------------------------------------------------------------------------
(* Claims checked under Spec *)

InWorld(o) ==
    /\ 0 <= o.x /\ o.x < GRID_WIDTH * Milli
    /\ 0 <= o.y /\ o.y < GRID_HEIGHT * Milli

\* floor(v / CELL_SIZE) of a stored coordinate
FloorCell(v) == v \div (CELL_SIZE * Milli)

\* C1: every object present in the Grid is in exactly the cell
\* (floor(y / CELL_SIZE), floor(x / CELL_SIZE)) of its stored x, y and in no
\* other cell.
C1_InCellOfStoredPosition ==
    \A e \in cells :
        /\ e[1] = FloorCell(heap[e[3]].y)
        /\ e[2] = FloorCell(heap[e[3]].x)
        /\ CellsOf(cells, e[3]) = {<<e[1], e[2]>>}

\* C2: each object is a member of at most one cell, and its row, col
\* fields name that cell.
C2_AtMostOneCell ==
    \A r \in DOMAIN heap :
        /\ Cardinality(CellsOf(cells, r)) <= 1
        /\ CellsOf(cells, r) \subseteq {<<heap[r].row, heap[r].col>>}

\* C3: Grid::Insert never makes an object a member of a cell while its
\* stored position lies outside the world rectangle.
C3_NoInsertOutsideWorld ==
    [][\A e \in cells' \ cells : InWorld(heap'[e[3]])]_vars

\* C4: after the close callback of a connection, its Player is a member of
\* no cell and the connection is in no client set.
C4_ClosedIsGone ==
    \A c \in Conns :
        conn[c].st = "closed" =>
            /\ ~IsIndexed(cells, PlayerRef(c))
            /\ \A w \in Workers : c \notin thread_clients[w]

GraceOver(o) == o.is_dead /\ now - o.died_at > DEATH_GRACE_MS

\* C5: when the owning worker's tick runs more than 1000 ms after an
\* object became dead, the object is a member of no cell afterwards: the
\* view tick for the Players of its connections, the object tick for the
\* Snowballs of its map.
C5_DeadGoneAfterGrace ==
    [][/\ \A c \in Conns :
             (/\ conn[c].st = "open"
              /\ ViewTick(conn[c].worker)
              /\ GraceOver(heap[PlayerRef(c)]))
             => ~IsIndexed(cells', PlayerRef(c))
       /\ \A w \in Workers : \A id \in DOMAIN thread_objects[w] :
             (ObjectTick(w) /\ GraceOver(heap[thread_objects[w][id]]))
             => ~IsIndexed(cells', thread_objects[w][id])]_vars

\* whether sid has the shape snowball_<playerId>_<seq>
IsSnowballOf(sid, playerId) ==
    LET prefix == Str_snowball \o <<"_">> \o playerId \o <<"_">>
    IN Len(sid) > Len(prefix) /\ SubSeq(sid, 1, Len(prefix)) = prefix

\* C7: no view tick hurts a player because of a snowball whose id is
\* snowball_<that player's id>_<seq>.
C7_NeverHitByOwnSnowball ==
    \A k \in 1..Len(sent) :
        sent[k].msg.messageType = "hit" =>
            ~IsSnowballOf(sent[k].by, sent[k].msg.id)

BatchesTo(out, c) ==
    Cardinality({k \in 1..Len(out) :
                    out[k].to = c /\ out[k].msg.messageType = "batch_update"})

\* C10: in each view tick of a worker, every connection of its client set
\* whose Player is neither dead nor expired is sent exactly one
\* batch_update.
C10_EveryLiveClientServed ==
    [][\A w \in Workers :
          ViewTick(w) =>
              \A c \in thread_clients[w] :
                  (/\ ~heap[PlayerRef(c)].is_dead
                   /\ ~Expired(heap[PlayerRef(c)], now))
                  => BatchesTo(sent', c) = 1]_vars

\* C25: a Player is inserted into the Grid only by join: a step after
\* which a Player is a member of a cell it was not a member of any cell
\* before is a join frame of its connection, whatever movement frames the
\* connection sends.
C25_PlayerInsertedOnlyByJoin ==
    [][\A c \in Conns :
          (/\ PlayerRef(c) \in DOMAIN heap
           /\ ~IsIndexed(cells, PlayerRef(c))
           /\ IsIndexed(cells', PlayerRef(c)))
              => \E pos \in JoinPositions(c) : Join(c, pos)]_vars

----------------------------------------------------------------------------
(* SpecGrid: the Grid calls of two workers, one lock operation at a time.  *)
(* Each worker holds one connection whose Player it joins, moves and       *)
(* removes; both workers search.  A call's steps on the worker's own       *)
(* object are taken together with the lock operation that follows them.    *)
(* The frames carry no timeUpdate, which the handlers read as 0.           *)

\* join positions: two cells of the world
GridPositions == {Pos(50, 50), Pos(150, 50)}

\* explicit positions of player movement frames: client c1 moves, client c2
\* stays where it joined
GridMovePositions(c) == IF c = "c1" THEN GridPositions ELSE {}

Rect(lower_y, upper_y, left_x, right_x) ==
    [lower_y |-> lower_y * Milli, upper_y |-> upper_y * Milli,
     left_x |-> left_x * Milli, right_x |-> right_x * Milli]

SearchRects == {Rect(0, 99, 0, 199)}

OwnerOf == [c \in Conns |-> IF c = "c1" THEN "w1" ELSE "w2"]

InitGrid ==
    /\ now = ClockStart
    /\ heap = [r \in {PlayerRef(c) : c \in Conns} |->
                  NewGameObject("player", Str_unknown)]
    /\ cells = {}
    /\ conn = [c \in Conns |-> [st |-> "open", worker |-> OwnerOf[c]]]
    /\ thread_clients = [w \in Workers |-> {c \in Conns : OwnerOf[c] = w}]
    /\ thread_objects = [w \in Workers |-> [i \in {} |-> 0]]
    /\ sent = <<>>
    /\ frames = 0
    /\ lock = NoLocks
    /\ call = NoCalls
    /\ running = TRUE

\* std::shared_mutex
CanLockUnique(lk, row, col) == \A l \in lk : ~(l[1] = row /\ l[2] = col)

CanLockShared(lk, row, col) ==
    \A l \in lk : ~(l[1] = row /\ l[2] = col /\ l[4] = "unique")

LockUnique(lk, row, col, w) == lk \cup {<<row, col, w, "unique">>}

LockShared(lk, row, col, w) == lk \cup {<<row, col, w, "shared">>}

\* a unique_lock that outlives the cell operation
UnlockUniqueKept(lk, row, col, w) == lk

\* the end of the scope of the unique_lock in Cell::Insert and Cell::Remove
UnlockUnique(lk, row, col, w) == lk \ {<<row, col, w, "unique">>}

\* a shared_lock that outlives the iteration of the loop
UnlockSharedKept(lk, row, col, w) == lk

\* the end of the scope of the shared_lock in Grid::Search
UnlockShared(lk, row, col, w) == lk \ {<<row, col, w, "shared">>}

Idle(w) == call[w].pc = "idle"

\* Grid::Insert up to the call of Cell::Insert: the worker's call record
\* and the heap
InsertPrelude(h, ref, op) ==
    LET row == RowOf(h[ref].y)
        col == ColOf(h[ref].x)
    IN IF ~InGrid(row, col)
       THEN [heap |-> h, call |-> IdleCall]
       ELSE [heap |-> [h EXCEPT ![ref].row = row, ![ref].col = col],
             call |-> [IdleCall EXCEPT !.op = op, !.pc = "lock_insert",
                                       !.ref = ref, !.row = row, !.col = col]]

\* Grid::Update from the return of its Remove to the call of Cell::Insert
AfterRemove(h, ref, current_time) ==
    LET obj == h[ref]
        cur_y == StaticCastInt(get_cur_y(obj, current_time))
        cur_x == StaticCastInt(get_cur_x(obj, current_time))
    IN InsertPrelude([h EXCEPT ![ref] =
                         UpdateReanchor(obj, TruncDiv(cur_y, CELL_SIZE),
                                        TruncDiv(cur_x, CELL_SIZE),
                                        cur_x, cur_y, current_time)],
                     ref, "update")

\* handleJoin on the worker's connection c, up to the call of Cell::Insert
StartInsert(w, c, pos) ==
    /\ Idle(w) /\ OwnerOf[c] = w
    /\ LET ref == PlayerRef(c)
           named == [heap EXCEPT ![ref].id = ClientId[c],
                                 ![ref].username = ClientId[c]]
           r == InsertPrelude([named EXCEPT ![ref].health = 100,
                                            ![ref].x = pos.x, ![ref].y = pos.y,
                                            ![ref].size = 20 * Milli,
                                            ![ref].time_update = 0,
                                            ![ref].life_length = LIFE_FOREVER],
                              ref, "insert")
       IN IF pos.x < 0 \/ pos.y < 0 \/ pos.x > GRID_WIDTH * Milli
             \/ pos.y > GRID_HEIGHT * Milli
          THEN heap' = named /\ UNCHANGED call
          ELSE heap' = r.heap /\ call' = [call EXCEPT ![w] = r.call]
    /\ UNCHANGED <<now, cells, conn, thread_clients, thread_objects, sent,
                   frames, lock, running>>

\* Cell::Insert: the unique_lock is acquired
CellInsertLock(w) ==
    /\ call[w].pc = "lock_insert"
    /\ CanLockUnique(lock, call[w].row, call[w].col)
    /\ lock' = LockUnique(lock, call[w].row, call[w].col, w)
    /\ call' = [call EXCEPT ![w].pc = "in_insert"]
    /\ UNCHANGED <<now, heap, cells, conn, thread_clients, thread_objects, sent,
                   frames, running>>

\* the history of the Search calls in progress, after <<row, col, ref>>
\* became a member of its cell
NoteInsert(cl, row, col, ref) ==
    [v \in Workers |->
        IF cl[v].op = "search" /\ cl[v].pc # "idle"
           /\ row \in SearchRows(cl[v].rect.lower_y, cl[v].rect.upper_y)
           /\ col \in SearchCols(cl[v].rect.left_x, cl[v].rect.right_x)
        THEN [cl[v] EXCEPT !.seen = @ \cup {<<row, col, ref>>}]
        ELSE cl[v]]

\* the history of the Search calls in progress, after <<row, col, ref>>
\* stopped being a member of its cell
NoteRemove(cl, row, col, ref) ==
    [v \in Workers |->
        IF cl[v].op = "search" /\ cl[v].pc # "idle"
        THEN [cl[v] EXCEPT !.stable = @ \ {<<row, col, ref>>}]
        ELSE cl[v]]

\* Cell::Insert: objects.insert, the lock is released, Grid::Insert returns
CellInsertBody(w) ==
    /\ call[w].pc = "in_insert"
    /\ cells' = CellInsert(cells, call[w].row, call[w].col, call[w].ref)
    /\ lock' = UnlockUnique(lock, call[w].row, call[w].col, w)
    /\ call' = NoteInsert([call EXCEPT ![w] = IdleCall],
                          call[w].row, call[w].col, call[w].ref)
    /\ UNCHANGED <<now, heap, conn, thread_clients, thread_objects, sent, frames, running>>

\* HandleThreadClients finds the Player of the worker's connection c
\* expired: Grid::Remove up to the call of Cell::Remove
StartRemove(w, c) ==
    /\ Idle(w) /\ OwnerOf[c] = w
    /\ LET ref == PlayerRef(c)
       IN /\ ~heap[ref].is_dead /\ Expired(heap[ref], now)
          /\ InGrid(heap[ref].row, heap[ref].col)
          /\ call' = [call EXCEPT ![w] =
                         [IdleCall EXCEPT !.op = "remove", !.pc = "lock_remove",
                                          !.ref = ref, !.row = heap[ref].row,
                                          !.col = heap[ref].col]]
    /\ UNCHANGED <<now, heap, cells, conn, thread_clients, thread_objects, sent,
                   frames, lock, running>>

\* Cell::Remove: the unique_lock is acquired
CellRemoveLock(w) ==
    /\ call[w].pc = "lock_remove"
    /\ CanLockUnique(lock, call[w].row, call[w].col)
    /\ lock' = LockUnique(lock, call[w].row, call[w].col, w)
    /\ call' = [call EXCEPT ![w].pc = "in_remove"]
    /\ UNCHANGED <<now, heap, cells, conn, thread_clients, thread_objects, sent,
                   frames, running>>

\* Cell::Remove: objects.erase, the lock is released; Grid::Remove returns,
\* to its caller or into Grid::Update
CellRemoveBody(w) ==
    /\ call[w].pc = "in_remove"
    /\ cells' = CellRemove(cells, call[w].row, call[w].col, call[w].ref)
    /\ lock' = UnlockUnique(lock, call[w].row, call[w].col, w)
    /\ LET r == IF call[w].op = "update"
                THEN AfterRemove(heap, call[w].ref, 0)
                ELSE [heap |-> heap, call |-> IdleCall]
       IN /\ heap' = r.heap
          /\ call' = NoteRemove([call EXCEPT ![w] = r.call],
                                call[w].row, call[w].col, call[w].ref)
    /\ UNCHANGED <<now, conn, thread_clients, thread_objects, sent, frames, running>>

\* handleMovement of a player frame on the worker's connection c, into
\* Grid::Update(player, 0) up to the call of Cell::Remove
StartUpdate(w, c, pos) ==
    /\ Idle(w) /\ OwnerOf[c] = w
    /\ LET ref == PlayerRef(c)
           h == [heap EXCEPT ![ref].x = pos.x, ![ref].y = pos.y,
                            ![ref].time_update = 0]
           new_row == TruncDiv(StaticCastInt(get_cur_y(h[ref], 0)), CELL_SIZE)
           new_col == TruncDiv(StaticCastInt(get_cur_x(h[ref], 0)), CELL_SIZE)
       IN IF InGrid(new_row, new_col)
             /\ (h[ref].row # new_row \/ h[ref].col # new_col)
          THEN IF InGrid(h[ref].row, h[ref].col)
               THEN /\ heap' = h
                    /\ call' = [call EXCEPT ![w] =
                                   [IdleCall EXCEPT
                                       !.op = "update", !.pc = "lock_remove",
                                       !.ref = ref, !.row = h[ref].row,
                                       !.col = h[ref].col]]
               ELSE LET r == AfterRemove(h, ref, 0)
                    IN heap' = r.heap /\ call' = [call EXCEPT ![w] = r.call]
          ELSE heap' = h /\ UNCHANGED call
    /\ UNCHANGED <<now, cells, conn, thread_clients, thread_objects, sent,
                   frames, lock, running>>

\* the cells of the grid the two loops of Search lock
VisitCells(rect) ==
    {rc \in SearchRows(rect.lower_y, rect.upper_y)
              \X SearchCols(rect.left_x, rect.right_x) : InGrid(rc[1], rc[2])}

\* the cells Search has still to lock once it is done with those before
\* and at <<r, c>>
CellsAfter(rect, r, c) ==
    {rc \in VisitCells(rect) : CellBefore(<<r, c>>, rc)}

FirstCell(S) == CHOOSE rc \in S : \A other \in S : ~CellBefore(other, rc)

\* the loops of Search move on: to the shared_lock of the next cell of the
\* grid, or out of the loops
SearchAdvance(cl, S) ==
    IF S = {} THEN [cl EXCEPT !.pc = "search_done"]
    ELSE [cl EXCEPT !.pc = "search_lock", !.r = FirstCell(S)[1],
                    !.c = FirstCell(S)[2]]

\* the cells a search of rect is about: those that meet the rectangle
Searched(rect, row, col) ==
    /\ InGrid(row, col)
    /\ row * CELL_SIZE * Milli <= rect.upper_y
    /\ (row + 1) * CELL_SIZE * Milli > rect.lower_y
    /\ col * CELL_SIZE * Milli <= rect.right_x
    /\ (col + 1) * CELL_SIZE * Milli > rect.left_x

StrictlyInside(o, rect) ==
    /\ rect.left_x < o.x /\ o.x < rect.right_x
    /\ rect.lower_y < o.y /\ o.y < rect.upper_y

\* HandleThreadClients finds the Player of the worker's connection c neither
\* dead nor expired; Grid::Search is called (by UpdatePlayerView) and reaches
\* its first lock
StartSearch(w, c, rect) ==
    /\ Idle(w) /\ OwnerOf[c] = w
    /\ ~heap[PlayerRef(c)].is_dead /\ ~Expired(heap[PlayerRef(c)], now)
    /\ LET members == {e \in cells : Searched(rect, e[1], e[2])}
           started == [IdleCall EXCEPT
                          !.op = "search", !.rect = rect,
                          !.stable = members, !.seen = members,
                          !.at_start =
                              {ref \in {e[3] : e \in cells} :
                                  /\ ~heap[ref].is_dead
                                  /\ StrictlyInside(heap[ref], rect)}]
       IN call' = [call EXCEPT ![w] = SearchAdvance(started, VisitCells(rect))]
    /\ UNCHANGED <<now, heap, cells, conn, thread_clients, thread_objects, sent,
                   frames, lock, running>>

\* Search: the shared_lock of cell <<r, c>> is acquired
SearchLock(w) ==
    /\ call[w].pc = "search_lock"
    /\ CanLockShared(lock, call[w].r, call[w].c)
    /\ lock' = LockShared(lock, call[w].r, call[w].c, w)
    /\ call' = [call EXCEPT ![w].pc = "search_in"]
    /\ UNCHANGED <<now, heap, cells, conn, thread_clients, thread_objects, sent,
                   frames, running>>

\* Search: the members of the locked cell are appended to all, in the order
\* the unordered_set yields them; the iteration ends and releases the lock
SearchCopy(w) ==
    /\ call[w].pc = "search_in"
    /\ \E order \in IterationOrders({e[3] : e \in
                       {m \in cells : m[1] = call[w].r /\ m[2] = call[w].c}}) :
          call' = [call EXCEPT ![w] =
                      SearchAdvance([call[w] EXCEPT !.all = @ \o order],
                                    CellsAfter(call[w].rect, call[w].r,
                                               call[w].c))]
    /\ lock' = UnlockShared(lock, call[w].r, call[w].c, w)
    /\ UNCHANGED <<now, heap, cells, conn, thread_clients, thread_objects, sent,
                   frames, running>>

\* Search: return all
SearchReturn(w) ==
    /\ call[w].pc = "search_done"
    /\ call' = [call EXCEPT ![w] = IdleCall]
    /\ UNCHANGED <<now, heap, cells, conn, thread_clients, thread_objects, sent,
                   frames, lock, running>>

\* the steps of a Grid call that is under way
GridStep(w) ==
    \/ CellInsertLock(w)
    \/ CellInsertBody(w)
    \/ CellRemoveLock(w)
    \/ CellRemoveBody(w)
    \/ SearchLock(w)
    \/ SearchCopy(w)
    \/ SearchReturn(w)

NextGrid ==
    \/ \E w \in Workers : \E c \in Conns : \E pos \in GridPositions :
          StartInsert(w, c, pos)
    \/ \E w \in Workers : \E c \in Conns : StartRemove(w, c)
    \/ \E w \in Workers : \E c \in Conns : \E pos \in GridMovePositions(c) :
          StartUpdate(w, c, pos)
    \/ \E w \in Workers : \E c \in Conns : \E rect \in SearchRects :
          StartSearch(w, c, rect)
    \/ \E w \in Workers : CellInsertLock(w)
    \/ \E w \in Workers : CellInsertBody(w)
    \/ \E w \in Workers : CellRemoveLock(w)
    \/ \E w \in Workers : CellRemoveBody(w)
    \/ \E w \in Workers : SearchLock(w)
    \/ \E w \in Workers : SearchCopy(w)
    \/ \E w \in Workers : SearchReturn(w)

SpecGrid == InitGrid /\ [][NextGrid]_vars

\* every worker thread keeps running, and a thread that waits for a
\* shared_mutex which is free again and again gets it
SpecGridFair == SpecGrid /\ \A w \in Workers : SF_vars(GridStep(w))

----------------------------------------------------------------------------
(* Claims about the Grid calls (SpecGrid, SpecGridFair) *)

Range(q) == {q[i] : i \in 1..Len(q)}

RefsOf(entries) == {e[3] : e \in entries}

Returned(w) == call[w].op = "search" /\ call[w].pc = "search_done"

\* C6 as stated: a Search that runs while other workers insert, remove and
\* update returns every object that was live with its stored (x, y) strictly
\* inside the rectangle when the call started, and only objects that were
\* members of a searched cell at some point during the call.
C6_SearchContainsAllAtStart ==
    \A w \in Workers :
        Returned(w) =>
            /\ call[w].at_start \subseteq Range(call[w].all)
            /\ Range(call[w].all) \subseteq RefsOf(call[w].seen)

\* C6 as amended: a Search that runs while other workers insert, remove and
\* update returns every object that was a member of one searched cell from
\* the start of the call to its end, and only objects that were members of a
\* searched cell at some point during the call.
C6_SearchContainsAllStable ==
    \A w \in Workers :
        Returned(w) =>
            /\ RefsOf(call[w].stable) \subseteq Range(call[w].all)
            /\ Range(call[w].all) \subseteq RefsOf(call[w].seen)

\* C6, its case: a Search returns after another worker moved a joined Player
\* from a cell the Search had not read yet to a cell it had read; the Player
\* was inside the rectangle when the call started and is when it returns,
\* and the result misses it
C6_SearchRacedWithUpdate ==
    \E w \in Workers :
        /\ Returned(w)
        /\ \E ref \in call[w].at_start \ Range(call[w].all) :
              /\ IsIndexed(cells, ref)
              /\ StrictlyInside(heap[ref], call[w].rect)
              /\ ~Expired(heap[ref], now)
              /\ ref \notin RefsOf(call[w].stable)

LocksHeld(w) == {l \in lock : l[3] = w}

C9_AtMostOneCellLock ==
    \A w \in Workers :
        /\ Cardinality(LocksHeld(w)) <= 1
        /\ call[w].pc \in {"idle", "lock_insert", "lock_remove", "search_lock",
                           "search_done"}
              => LocksHeld(w) = {}

\* C9, its case: an Update is inside the Cell::Insert of the new cell, the
\* Remove from the old cell behind it, while the other worker reads a cell
C9_UpdateInNewCell ==
    \E w \in Workers :
        /\ call[w].op = "update" /\ call[w].pc = "in_insert"
        /\ LocksHeld(w) = {<<call[w].row, call[w].col, w, "unique">>}
        /\ \E v \in Workers \ {w} :
              call[v].pc = "search_in" /\ call[v].c > FirstCell(VisitCells(call[v].rect))[2]

\* C27: the result of one Search call never contains the same object
\* twice, also when another worker moves the object between two cells of
\* the searched rectangle with Grid::Update while the search is in progress.
C27_SearchResultHasNoDuplicate ==
    \A w \in Workers :
        Returned(w) =>
            \A i, j \in 1..Len(call[w].all) :
                call[w].all[i] = call[w].all[j] => i = j

----------------------------------------------------------------------------
(* SpecView: two connections that are open when the behaviour starts, the  *)
(* frames they send and the ticks of their workers.  Client c1 joins and   *)
(* is the target; client c2 joins next to it and throws snowballs at it.   *)

\* the id of a snowball: snowball_<playerId>_<seq>
SnowballId(playerId, seq) == Str_snowball \o <<"_">> \o playerId \o <<"_", seq>>

\* join positions: c1 in the world, left of it, on its right edge; c2 one
\* cell to the right of c1
ViewJoins(c) ==
    IF c = "c1" THEN {Pos(50, 50), Pos(-5, 50), Pos(GRID_WIDTH, 50)}
    ELSE {Pos(150, 50)}

\* snowball movement frames: c2 throws at the position of c1, its first
\* snowball with damage 100, its second with damage 10
ViewThrows(c, seq) ==
    IF c = "c2"
    THEN {IF seq = "1" THEN Throw(50, 0, 100, 5000) ELSE Throw(50, 0, 10, 5000)}
    ELSE {}

SnowballSeqs == {"1", "2"}

\* both connections are open: c1 on w1, c2 on either worker
InitView ==
    /\ now = ClockStart
    /\ heap = [r \in {PlayerRef(c) : c \in Conns} |->
                  NewGameObject("player", Str_unknown)]
    /\ cells = {}
    /\ \E w \in Workers :
          /\ conn = [c \in Conns |->
                        [st |-> "open", worker |-> IF c = "c1" THEN "w1" ELSE w]]
          /\ thread_clients =
                [v \in Workers |->
                    {c \in Conns : (IF c = "c1" THEN "w1" ELSE w) = v}]
    /\ thread_objects = [w \in Workers |-> [i \in {} |-> 0]]
    /\ sent = <<>>
    /\ frames = 0
    /\ lock = NoLocks
    /\ call = NoCalls
    /\ running = TRUE

\* .message, type "movement", objectType "snowball", id snowball_<id>_<seq>
ThrowSnowball(c, t, seq) ==
    /\ CanReceive(c)
    /\ LET w == conn[c].worker
           r == handleMovementSnowball(Store(heap, cells), thread_objects[w],
                                       SnowballId(ClientId[c], seq), t, now)
       IN /\ heap' = r.st.heap
          /\ cells' = r.st.cells
          /\ thread_objects' = [thread_objects EXCEPT ![w] = r.objs]
    /\ frames' = frames + 1
    /\ sent' = <<>>
    /\ UNCHANGED <<now, conn, thread_clients, lock, call, running>>

\* a JSON number field of a frame, in thousandths, or the field's absence
Num(v) == [present |-> TRUE, v |-> v]

NoField == [present |-> FALSE, v |-> 0]

\* a value() that returns the default whatever the message holds
ValueDefault(field, default) == default

\* message.value(key, 0LL): the default for an absent key, a JSON number
\* converted to long long
ValueLongLong(field, default) ==
    IF field.present THEN TruncDiv(field.v, Milli) ELSE default

\* handlePing: the pong frame
handlePing(c, clientTime, serverTime) ==
    Frame(c, [messageType |-> "pong", serverTime |-> serverTime,
              clientTime |-> ValueLongLong(clientTime, 0)], <<>>)

\* the clientTime of ping frames: 1000, 1000.5, none; c1 is the one to ping
PingTimes(c) ==
    IF c = "c1" THEN {Num(1000 * Milli), Num(1000 * Milli + 500), NoField}
    ELSE {}

\* .message, type "ping"
Ping(c, clientTime) ==
    /\ CanReceive(c)
    /\ sent' = <<handlePing(c, clientTime, now)>>
    /\ frames' = frames + 1
    /\ UNCHANGED <<now, heap, cells, conn, thread_clients, thread_objects, lock,
                   call, running>>

\* std::terminate: the process ends and the kernel resets its sockets
Terminated(cn) ==
    [c \in Conns |->
        IF cn[c].st = "open" THEN [cn[c] EXCEPT !.st = "reset"] ELSE cn[c]]

\* .message with text that json::parse rejects, or with a field of a type
\* that get<double>() or value() rejects: the exception leaves HandleMessage
\* and the callback, and nothing catches it
Malformed(c) ==
    /\ CanReceive(c)
    /\ running' = FALSE
    /\ conn' = Terminated(conn)
    /\ frames' = frames + 1
    /\ sent' = <<>>
    /\ UNCHANGED <<now, heap, cells, thread_clients, thread_objects, lock, call>>

NextView ==
    \/ \E c \in Conns : \E pos \in ViewJoins(c) : running /\ Join(c, pos)
    \/ \E c \in Conns : \E seq \in SnowballSeqs : \E t \in ViewThrows(c, seq) :
          running /\ ThrowSnowball(c, t, seq)
    \/ \E c \in Conns : \E clientTime \in PingTimes(c) :
          running /\ Ping(c, clientTime)
    \/ \E c \in Conns : running /\ Malformed(c)
    \/ \E w \in Workers : running /\ ViewTick(w)
    \/ \E w \in Workers : running /\ ObjectTick(w)
    \/ running /\ AdvanceClock

SpecView == InitView /\ [][NextView]_vars

----------------------------------------------------------------------------
(* Claims checked under SpecView *)

\* the positions in sent of the batch_update frames
Batches == {k \in 1..Len(sent) : sent[k].msg.messageType = "batch_update"}

\* the positions in sent of the hit frames
Hits == {k \in 1..Len(sent) : sent[k].msg.messageType = "hit"}

\* the ids of the records of a batch_update
IdsIn(batch) == {batch.updates[i].id : i \in 1..Len(batch.updates)}

\* C11: no batch_update sent on a connection contains a record whose id is
\* the id of that connection's own Player.
C11_NoSelfInBatch ==
    \A k \in Batches :
        heap[PlayerRef(sent[k].to)].id \notin IdsIn(sent[k].msg)

\* C11, its case: a joined Player, itself a member of a cell its Search
\* reads, is sent a batch_update with the record of another object
C11_BatchOfOthers ==
    \E k \in Batches :
        /\ IsIndexed(cells, PlayerRef(sent[k].to))
        /\ heap[PlayerRef(sent[k].to)].id = ClientId[sent[k].to]
        /\ IdsIn(sent[k].msg) # {}

\* C14 as stated: a snowball that has hit a player is contained in no
\* later batch_update sent to that player.
C14_HitSnowballNotSentAgain ==
    \A k \in Batches :
        \A i \in 1..Len(sent[k].by) :
            heap[sent[k].by[i]].hit # PlayerRef(sent[k].to)

\* C14 as amended: a snowball that has hit a player is left out of the
\* batch_update of the view tick of the hit and is contained in no
\* batch_update sent to that player after the next object tick of the
\* snowball's worker; a batch_update before that tick that contains it
\* reports it as dead.
C14_HitSnowballSentUntilObjectTick ==
    \A k \in Batches :
        \A i \in 1..Len(sent[k].by) :
            heap[sent[k].by[i]].hit = PlayerRef(sent[k].to) =>
                /\ sent[k].by[i] \in MapRefs(thread_objects)
                /\ sent[k].msg.updates[i].isDead
                /\ \A h \in Hits :
                      sent[h].to = sent[k].to =>
                         sent[h].by # heap[sent[k].by[i]].id

\* C14, its case: the view tick after the one in which a snowball hit a
\* player sends that player a batch_update with the snowball
C14_HitSnowballInNextBatch ==
    \E k \in Batches :
        \E i \in 1..Len(sent[k].by) :
            /\ heap[sent[k].by[i]].hit = PlayerRef(sent[k].to)
            /\ heap[sent[k].by[i]].type = "snowball"
            /\ Hits = {}

\* C15: over any execution at most one hit frame with isDead = true is
\* sent for one player, also when several damaging snowballs overlap the
\* player in the same view tick.
C15_OneDeadHitFrame ==
    \A r \in DOMAIN heap : heap[r].dead_hits <= 1

\* C16: after a player has become dead, it appears in at most one further
\* batch_update sent to any given other connection.
C16_DeadPlayerSentOnce ==
    \A r \in DOMAIN heap : heap[r].dead_twice = {}

\* C16 (amended): a batch_update contains a dead player only while that
\* player is not expired at the time of the view tick, that is during the
\* grace window Hurt started (1000 ms, as long as the dead player's own
\* frames have not re-anchored it); the number of such batch_updates is not
\* limited to one.
C16_DeadPlayerSentWhileNotExpired ==
    \A k \in Batches : \A i \in 1..Len(sent[k].by) :
        LET o == heap[sent[k].by[i]]
        IN (o.type = "player" /\ o.is_dead) =>
              /\ ~Expired(o, sent[k].msg.timestamp)
              /\ sent[k].msg.timestamp - o.died_at <= DEATH_GRACE_MS
                    \/ o.time_update # o.died_at
                    \/ o.life_length # DEATH_GRACE_MS

\* C16 (witness): a connection has been sent the same dead player in a
\* second batch_update, inside the grace window.
C16_DeadPlayerSentTwice ==
    \E r \in DOMAIN heap :
        /\ heap[r].is_dead /\ heap[r].dead_twice # {}
        /\ \E k \in Batches : r \in Range(sent[k].by)

\* a position outside the world rectangle [0, WIDTH) x [0, HEIGHT)
OutOfWorld(pos) ==
    \/ pos.x < 0 \/ pos.y < 0
    \/ pos.x >= GRID_WIDTH * Milli \/ pos.y >= GRID_HEIGHT * Milli

\* C18: immediately after a join frame whose position is outside the world
\* bounds (x = -5, x = WIDTH) the Player is a member of no Grid cell.
C18_OutOfBoundsJoinLeavesNoMember ==
    [][\A c \in Conns : \A pos \in ViewJoins(c) :
          (OutOfWorld(pos) /\ Join(c, pos)) =>
              ~IsIndexed(cells', PlayerRef(c))]_vars

\* C18 (amended): a join frame whose position is outside the world bounds
\* changes the membership of no Grid cell, so a Player that was in no cell
\* before it is in no cell after it; a Player enters the Grid only by a
\* frame of its own connection, and a batch_update reports only objects
\* that were members of a Grid cell when the view tick began.
C18_OutOfBoundsJoinKeepsCells ==
    [][/\ \A c \in Conns : \A pos \in ViewJoins(c) :
             (OutOfWorld(pos) /\ Join(c, pos)) => cells' = cells
       /\ \A c \in Conns :
             (~IsIndexed(cells, PlayerRef(c)) /\ IsIndexed(cells', PlayerRef(c)))
                => \E pos \in ViewJoins(c) : ~OutOfWorld(pos) /\ Join(c, pos)
       /\ \A k \in 1..Len(sent') :
             sent'[k].msg.messageType = "batch_update" =>
                \A i \in 1..Len(sent'[k].by) :
                   IsIndexed(cells, sent'[k].by[i])]_vars

\* C18 (witness): c1 has sent join frames outside the world bounds only (its
\* id is set, the fields behind the bounds test are not), its Player is in
\* no cell, and a view tick has sent c2 a batch_update without it.
C18_OutOfBoundsJoinNotReported ==
    /\ heap[PlayerRef("c1")].id = ClientId["c1"]
    /\ heap[PlayerRef("c1")].life_length # LIFE_FOREVER
    /\ ~IsIndexed(cells, PlayerRef("c1"))
    /\ \E k \in Batches :
          /\ sent[k].to = "c2"
          /\ PlayerRef("c1") \notin Range(sent[k].by)

\* C19: a malformed inbound frame is dropped silently: the worker keeps
\* running, the connection stays open and in the client set, and the Grid,
\* the Players and the snowball maps are unchanged.
C19_MalformedFrameDropped ==
    [][\A c \in Conns :
          Malformed(c) =>
             /\ running'
             /\ conn'[c].st = "open"
             /\ c \in thread_clients'[conn[c].worker]
             /\ UNCHANGED <<heap, cells, thread_objects>>]_vars

\* what a ping frame leaves alone, and the one frame it sends
PingAnswered(c) ==
    /\ Len(sent') = 1
    /\ sent'[1].to = c
    /\ sent'[1].msg.messageType = "pong"
    /\ UNCHANGED <<heap, cells, thread_clients, thread_objects>>

StepOfWorker(v) ==
    \/ ViewTick(v)
    \/ ObjectTick(v)
    \/ \E c \in Conns : \E seq \in SnowballSeqs : \E t \in ViewThrows(c, seq) :
          conn[c].worker = v /\ ThrowSnowball(c, t, seq)

\* C22: a Snowball is mutated only by its owning worker: a step that
\* writes its position, time_update, life_length or is_dead, or changes its
\* Grid membership, is a step of the worker whose map holds it.
C22_SnowballWrittenByOwnerOnly ==
    [][\A v \in Workers : \A id \in DOMAIN thread_objects[v] :
          LET r == thread_objects[v][id]
          IN (\/ r \notin DOMAIN heap'
              \/ heap'[r].x # heap[r].x \/ heap'[r].y # heap[r].y
              \/ heap'[r].time_update # heap[r].time_update
              \/ heap'[r].life_length # heap[r].life_length
              \/ heap'[r].is_dead # heap[r].is_dead
              \/ CellsOf(cells', r) # CellsOf(cells, r))
                 => StepOfWorker(v)]_vars

----------------------------------------------------------------------------
(* SpecHurt: GameObject::Hurt on the Player of connection c1, called with  *)
(* the damages of HurtDamages, from every state of HurtInit.               *)

HurtHealths == {0, 5, 10, 100, 110}

HurtDamages == {-10, 5, 10, 100}

\* Hurt is not called with a negative damage above this health
MaxHealth == 120

\* GameObject::SendMessageToClient on the connection c of the object
SendMessageToClient(c, o, current_time, type) ==
    Frame(c, ToJson(o, current_time, type), <<>>)

\* a Player of an open connection: joined (life 4e18) or not, hurt before
\* or not, dead or not
InitHurt ==
    /\ now \in {ClockStart, ClockStart + PLAYER_TICK_MS}
    /\ \E health \in HurtHealths, is_dead \in BOOLEAN,
          life_length \in {DEFAULT_LIFE_LENGTH, LIFE_FOREVER},
          time_update \in {0, ClockStart - OBJECT_TICK_MS} :
          heap = [r \in {PlayerRef("c1")} |->
                     [NewGameObject("player", ClientId["c1"]) EXCEPT
                         !.health = health, !.is_dead = is_dead,
                         !.life_length = life_length,
                         !.time_update = time_update,
                         !.size = 20 * Milli]]
    /\ cells = {}
    /\ conn = [c \in Conns |->
                  IF c = "c1" THEN [st |-> "open", worker |-> "w1"]
                  ELSE [st |-> "new", worker |-> "none"]]
    /\ thread_clients = [w \in Workers |-> IF w = "w1" THEN {"c1"} ELSE {}]
    /\ thread_objects = [w \in Workers |-> [i \in {} |-> 0]]
    /\ sent = <<>>
    /\ frames = 0
    /\ lock = NoLocks
    /\ call = NoCalls
    /\ running = TRUE

\* player_ptr->Hurt(ws, damage)
HurtCall(c, damage) ==
    /\ conn[c].st = "open"
    /\ heap[PlayerRef(c)].health - damage <= MaxHealth
    /\ LET hurt == Hurt(heap[PlayerRef(c)], damage, now)
       IN /\ heap' = [heap EXCEPT ![PlayerRef(c)] = hurt]
          /\ sent' = <<SendMessageToClient(c, hurt, now, "hit")>>
    /\ UNCHANGED <<now, cells, conn, thread_clients, thread_objects, frames, lock,
                   call, running>>

NextHurt == \E c \in Conns : \E damage \in HurtDamages : HurtCall(c, damage)

SpecHurt == InitHurt /\ [][NextHurt]_vars

\* C12: whenever a Hurt call brings the health to 0, the object is dead,
\* its time_update is the time of the call and its life_length is 1000 when
\* the call returns.
C12_HurtToZeroStartsGrace ==
    [][\A r \in DOMAIN heap :
          heap'[r].health = 0 =>
              /\ heap'[r].is_dead
              /\ heap'[r].time_update = now
              /\ heap'[r].life_length = 1000]_vars

\* C12, its case: a Hurt call has brought a joined Player to health 0
C12_HurtToZero ==
    /\ sent # <<>>
    /\ \E r \in DOMAIN heap : heap[r].health = 0 /\ heap[r].died_at = now


\* C13: each Hurt(damage) call sets health to max(0, health - damage) and
\* emits exactly one frame, a hit frame on the hurt player's connection
\* whose newHealth is the health after the call and whose isDead is the
\* is_dead flag after the call.
C13_HurtClampsAndReports ==
    [][\A c \in Conns : \A damage \in HurtDamages :
          HurtCall(c, damage) =>
              LET before == heap[PlayerRef(c)]
                  after == heap'[PlayerRef(c)]
              IN /\ after.health = IF before.health - damage > 0
                                   THEN before.health - damage ELSE 0
                 /\ Len(sent') = 1
                 /\ sent'[1].to = c
                 /\ sent'[1].msg.messageType = "hit"
                 /\ sent'[1].msg.id = after.id
                 /\ sent'[1].msg.newHealth = after.health
                 /\ sent'[1].msg.isDead = after.is_dead]_vars

\* C13, its case: a Hurt call has brought a Player to health 0 and sent
\* its hit frame
C13_HitFrameSent ==
    /\ Len(sent) = 1
    /\ sent[1].msg.messageType = "hit"
    /\ sent[1].msg.isDead
    /\ sent[1].msg.newHealth = 0
    /\ heap[PlayerRef(sent[1].to)].time_update = now

----------------------------------------------------------------------------
(* SpecTtl: snowballs in flight.  The clock moves in steps short enough    *)
(* for a snowball to change its cell several times before it expires.     *)

\* the clock step: 40 periods of the player timer
TtlStep == 40 * PLAYER_TICK_MS
MaxTtlSteps == 3

\* c1 joins in the cell the snowballs of c2 fly through
TtlJoins == {Pos(150, 50)}

\* snowball movement frames of c2: one cell per clock step to the right,
\* with and without damage, expiring after one or two steps
TtlThrows == {Throw(50, 250, 10, 600), Throw(50, 250, 0, 600),
              Throw(50, 250, 0, 300)}

\* time passes
AdvanceTtl ==
    /\ now < ClockStart + MaxTtlSteps * TtlStep
    /\ now' = now + TtlStep
    /\ sent' = <<>>
    /\ UNCHANGED <<heap, cells, conn, thread_clients, thread_objects, frames,
                   lock, call, running>>

NextTtl ==
    \/ \E pos \in TtlJoins : Join("c1", pos)
    \/ \E t \in TtlThrows : ThrowSnowball("c2", t, "1")
    \/ \E w \in Workers : ViewTick(w)
    \/ \E w \in Workers : ObjectTick(w)
    \/ AdvanceTtl

SpecTtl == InitView /\ [][NextTtl]_vars

\* the snowball is past the expiry its last movement frame declared
FrameExpired(o, current_time) ==
    current_time - o.frame_time_update > o.frame_life_length

\* C17: an object tick of the owning worker that runs after the expiry the
\* snowball's last movement frame declared (now - T > L) leaves the snowball
\* in neither the worker's map nor any Grid cell, whatever cell transitions
\* Grid::Update made before; until then a snowball that is not dead stays in
\* the map.
C17_TtlBoundsResidency ==
    [][\A w \in Workers : \A id \in DOMAIN thread_objects[w] :
          LET r == thread_objects[w][id]
              o == heap[r]
          IN /\ (ObjectTick(w) /\ FrameExpired(o, now)) =>
                   /\ id \notin DOMAIN thread_objects'[w]
                   /\ ~IsIndexed(cells', r)
             /\ (~o.is_dead /\ ~FrameExpired(o, now)) =>
                   /\ id \in DOMAIN thread_objects'[w]
                   /\ thread_objects'[w][id] = r]_vars

\* C17 (witness): a snowball that Grid::Update has moved to another cell and
\* re-anchored is past its declared expiry and has not been hit; the object
\* tick is due.
C17_ExpiredAfterCellTransition ==
    \E w \in Workers : \E id \in DOMAIN thread_objects[w] :
        LET o == heap[thread_objects[w][id]]
        IN /\ ~o.is_dead
           /\ FrameExpired(o, now)
           /\ o.time_update # o.frame_time_update
           /\ IsIndexed(cells, thread_objects[w][id])

----------------------------------------------------------------------------
(* SpecMsg: HandleMessage, from the text of a frame to its handler.  A     *)
(* frame is the JSON object a client sends; frames are well-formed here.   *)

Str_ping == <<"p", "i", "n", "g">>

JoinFrame(id, username, pos) ==
    [type |-> "join", id |-> id, username |-> username, position |-> pos,
     throw |-> Throw(0, 0, 0, 0), clientTime |-> NoField]

SnowballFrame(id, t) ==
    [type |-> "movement", id |-> id, username |-> <<>>, position |-> Pos(0, 0),
     throw |-> t, clientTime |-> NoField]

PingFrame(clientTime) ==
    [type |-> "ping", id |-> <<>>, username |-> <<>>, position |-> Pos(0, 0),
     throw |-> Throw(0, 0, 0, 0), clientTime |-> clientTime]

\* str_message.find("\"ping\"") != npos: the text of the frame holds the
\* token "ping" between quotes, which it does when a string of the frame is
\* ping (a quote inside a string is written \" and gives no such token)
HasPingToken(f) ==
    f.type = "ping" \/ f.id = Str_ping \/ f.username = Str_ping

\* a fast path that looks at the decoded type
HasPingType(f) == f.type = "ping"

\* HandleMessage: the store, the worker's map and the frames sent
HandleMessage(st, objs, c, f, current_time) ==
    IF HasPingToken(f)
    THEN [st |-> st, objs |-> objs,
          out |-> <<handlePing(c, f.clientTime, current_time)>>]
    ELSE IF f.type = "join"
    THEN [st |-> handleJoin(st, PlayerRef(c), f.id, f.username, f.position,
                            100, 20 * Milli, current_time),
          objs |-> objs, out |-> <<>>]
    ELSE IF f.type = "movement"
    THEN LET r == handleMovementSnowball(st, objs, f.id, f.throw, current_time)
         IN [st |-> r.st, objs |-> r.objs, out |-> <<>>]
    ELSE [st |-> st, objs |-> objs, out |-> <<>>]

\* the frames of the clients: joins under the client's id with its own name
\* or the name ping, snowballs with damage at the position of c1, pings
MsgFrames(c) ==
    IF c = "c1"
    THEN {JoinFrame(ClientId[c], ClientId[c], Pos(50, 50)),
          JoinFrame(ClientId[c], Str_ping, Pos(50, 50)),
          PingFrame(Num(1000 * Milli))}
    ELSE {JoinFrame(ClientId[c], Str_ping, Pos(150, 50)),
          SnowballFrame(SnowballId(ClientId[c], "1"), Throw(50, 0, 10, 5000)),
          SnowballFrame(Str_ping, Throw(50, 0, 10, 5000))}

\* .message
Message(c, f) ==
    /\ CanReceive(c)
    /\ LET w == conn[c].worker
           r == HandleMessage(Store(heap, cells), thread_objects[w], c, f, now)
       IN /\ heap' = r.st.heap
          /\ cells' = r.st.cells
          /\ thread_objects' = [thread_objects EXCEPT ![w] = r.objs]
          /\ sent' = r.out
    /\ frames' = frames + 1
    /\ UNCHANGED <<now, conn, thread_clients, lock, call, running>>

NextMsg ==
    \/ \E c \in Conns : \E f \in MsgFrames(c) : Message(c, f)
    \/ \E w \in Workers : ViewTick(w)
    \/ \E w \in Workers : ObjectTick(w)
    \/ AdvanceClock

SpecMsg == InitView /\ [][NextMsg]_vars

\* the effect of a frame routed by its decoded type
RoutedByType(c, f) ==
    LET w == conn[c].worker
        st == Store(heap, cells)
    IN IF f.type = "join"
       THEN LET j == handleJoin(st, PlayerRef(c), f.id, f.username, f.position,
                                100, 20 * Milli, now)
            IN /\ heap' = j.heap /\ cells' = j.cells
               /\ UNCHANGED thread_objects
       ELSE LET r == handleMovementSnowball(st, thread_objects[w], f.id,
                                            f.throw, now)
            IN /\ heap' = r.st.heap /\ cells' = r.st.cells
               /\ thread_objects' = [thread_objects EXCEPT ![w] = r.objs]

\* C21: a join or movement frame has the effect of its handler on the
\* Player, the snowball map and the Grid and produces no pong, whether or
\* not its text holds the token "ping" in another field (username "ping").
C21_RoutedByDecodedType ==
    [][\A c \in Conns : \A f \in MsgFrames(c) :
          (f.type # "ping" /\ Message(c, f)) =>
             /\ RoutedByType(c, f)
             /\ \A k \in 1..Len(sent') : sent'[k].msg.messageType # "pong"]_vars

----------------------------------------------------------------------------
(* SpecExtract: ExtractPlayerId on object ids of every shape.  call[w] is  *)
(* the call worker w made last: its argument and what it returned.         *)

MaxIdLen == 4

IdChars == {"a", "b", "_"}

\* the strings over IdChars of length n or less
RECURSIVE IdStrings(_)
IdStrings(n) ==
    IF n = 0 THEN {<<>>}
    ELSE LET shorter == IdStrings(n - 1)
         IN shorter \cup {Append(q, ch) : q \in shorter, ch \in IdChars}

\* object ids: any string, and any string behind the prefix snowball_
ObjectIds ==
    IdStrings(MaxIdLen)
        \cup {Str_snowball \o <<"_">> \o q : q \in IdStrings(MaxIdLen)}

NoExtractCall == [op |-> "none", snowballId |-> <<>>, ownerId |-> <<>>]

\* one object in the Grid; no worker has called ExtractPlayerId
InitExtract ==
    /\ now = ClockStart
    /\ \E id \in ObjectIds :
          heap = [r \in {<<"s", "1">>} |-> NewGameObject("snowball", id)]
    /\ cells = {<<0, 0, <<"s", "1">>>>}
    /\ conn = [c \in Conns |-> [st |-> "new", worker |-> "none"]]
    /\ thread_clients = [w \in Workers |-> {}]
    /\ thread_objects = [w \in Workers |-> [i \in {} |-> 0]]
    /\ sent = <<>>
    /\ frames = 0
    /\ lock = NoLocks
    /\ call = [w \in Workers |-> NoExtractCall]
    /\ running = TRUE

\* UpdatePlayerView: ExtractPlayerId(obj->get_id()) for an object of the Grid
ExtractCall(w) ==
    /\ \E e \in cells :
          call' = [call EXCEPT ![w] =
                      [op |-> "ExtractPlayerId", snowballId |-> heap[e[3]].id,
                       ownerId |-> ExtractPlayerId(heap[e[3]].id)]]
    /\ UNCHANGED <<now, heap, cells, conn, thread_clients, thread_objects, sent,
                   frames, lock, running>>

NextExtract == \E w \in Workers : ExtractCall(w)

SpecExtract == InitExtract /\ [][NextExtract]_vars

\* the id has the shape snowball_<owner>_<seq>
SnowballShaped(id) ==
    /\ Len(id) > Len(Str_snowball)
    /\ SubSeq(id, 1, Len(Str_snowball) + 1) = Str_snowball \o <<"_">>
    /\ Find(id, "_", Len(Str_snowball) + 1) # npos

\* C23: for every object id that does not have the shape
\* snowball_<owner>_<seq> (no underscore, one underscore, a_b_c)
\* ExtractPlayerId yields the sentinel not_snowball.
C23_SentinelForOtherShapes ==
    \A w \in Workers :
        (call[w].op = "ExtractPlayerId" /\ ~SnowballShaped(call[w].snowballId))
            => call[w].ownerId = Str_not_snowball

----------------------------------------------------------------------------
(* SpecSearch: Grid::Search on rectangles of every orientation.  call[w]   *)
(* is the call worker w made last: its rectangle and the vector returned.  *)

\* the cells the two objects of the Grid are in
SearchCells == {<<0, 0>>, <<1, 0>>, <<1, 1>>}

\* the bounds of the rectangles: in row and column 0, and two in row 1
SearchYs == {20 * Milli, 120 * Milli, 150 * Milli}
SearchXs == {20 * Milli, 120 * Milli}

\* an object in the middle of cell e
InCell(id, e) ==
    [NewGameObject("snowball", id) EXCEPT
        !.row = e[1], !.col = e[2],
        !.y = (e[1] * CELL_SIZE + CELL_SIZE \div 2) * Milli,
        !.x = (e[2] * CELL_SIZE + CELL_SIZE \div 2) * Milli,
        !.life_length = LIFE_FOREVER]

NoSearchCall ==
    [op |-> "none", lower_y |-> 0, upper_y |-> 0, left_x |-> 0, right_x |-> 0,
     all |-> <<>>]

\* two objects in the Grid; no worker has called Search
InitSearch ==
    /\ now = ClockStart
    /\ \E e1 \in SearchCells, e2 \in SearchCells :
          /\ heap = [r \in {<<"s", "1">>, <<"s", "2">>} |->
                        IF r = <<"s", "1">> THEN InCell(<<"1">>, e1)
                        ELSE InCell(<<"2">>, e2)]
          /\ cells = {<<e1[1], e1[2], <<"s", "1">>>>,
                      <<e2[1], e2[2], <<"s", "2">>>>}
    /\ conn = [c \in Conns |-> [st |-> "new", worker |-> "none"]]
    /\ thread_clients = [w \in Workers |-> {}]
    /\ thread_objects = [w \in Workers |-> [i \in {} |-> 0]]
    /\ sent = <<>>
    /\ frames = 0
    /\ lock = NoLocks
    /\ call = [w \in Workers |-> NoSearchCall]
    /\ running = TRUE

\* grid->Search(lower_y, upper_y, left_x, right_x), run to completion
SearchCall(w, lower_y, upper_y, left_x, right_x) ==
    /\ \E all \in GridSearch(cells, lower_y, upper_y, left_x, right_x) :
          call' = [call EXCEPT ![w] =
                      [op |-> "Search", lower_y |-> lower_y, upper_y |-> upper_y,
                       left_x |-> left_x, right_x |-> right_x, all |-> all]]
    /\ UNCHANGED <<now, heap, cells, conn, thread_clients, thread_objects, sent,
                   frames, lock, running>>

NextSearch ==
    \E w \in Workers : \E lower_y \in SearchYs, upper_y \in SearchYs :
        \E left_x \in SearchXs, right_x \in SearchXs :
            SearchCall(w, lower_y, upper_y, left_x, right_x)

SpecSearch == InitSearch /\ [][NextSearch]_vars

\* C24: Grid::Search returns an empty result for every query with
\* y_lo > y_hi or x_lo > x_hi, also when the two bounds fall into the same
\* cell row or column (y_lo = 150, y_hi = 120).
C24_InvertedQueryIsEmpty ==
    \A w \in Workers :
        (/\ call[w].op = "Search"
         /\ call[w].lower_y > call[w].upper_y \/ call[w].left_x > call[w].right_x)
            => call[w].all = <<>>

----------------------------------------------------------------------------
(* SpecMove: two joined players; c1 moves, c2 watches and throws.          *)

\* explicit positions of c1's movement frames, inside the world: in the
\* cell of its join, in the next cell (with a fraction), two cells away
MoveFramePositions ==
    {[x |-> 60 * Milli, y |-> 50 * Milli],
     [x |-> 150 * Milli + 700, y |-> 50 * Milli],
     [x |-> 250 * Milli, y |-> 150 * Milli]}

\* the state after both clients have joined: c1 at (50, 50) on w1, c2 at
\* (150, 50) on either worker
InitMove ==
    /\ now = ClockStart
    /\ LET fresh == [r \in {PlayerRef(c) : c \in Conns} |->
                        NewGameObject("player", Str_unknown)]
           j1 == handleJoin(Store(fresh, {}), PlayerRef("c1"), ClientId["c1"],
                            ClientId["c1"], Pos(50, 50), 100, 20 * Milli,
                            ClockStart)
           j2 == handleJoin(j1, PlayerRef("c2"), ClientId["c2"], ClientId["c2"],
                            Pos(150, 50), 100, 20 * Milli, ClockStart)
       IN heap = j2.heap /\ cells = j2.cells
    /\ \E w \in Workers :
          /\ conn = [c \in Conns |->
                        [st |-> "open", worker |-> IF c = "c1" THEN "w1" ELSE w]]
          /\ thread_clients =
                [v \in Workers |->
                    {c \in Conns : (IF c = "c1" THEN "w1" ELSE w) = v}]
    /\ thread_objects = [w \in Workers |-> [i \in {} |-> 0]]
    /\ sent = <<>>
    /\ frames = 0
    /\ lock = NoLocks
    /\ call = NoCalls
    /\ running = TRUE

NextMove ==
    \/ \E pos \in MoveFramePositions : MovePlayer("c1", pos)
    \/ ThrowSnowball("c2", Throw(50, 0, 100, 5000), "1")
    \/ \E w \in Workers : ViewTick(w)
    \/ \E w \in Workers : ObjectTick(w)
    \/ AdvanceClock

SpecMove == InitMove /\ [][NextMove]_vars

\* the cell of a position
CellOf(pos) ==
    <<TruncDiv(StaticCastInt(pos.y), CELL_SIZE),
      TruncDiv(StaticCastInt(pos.x), CELL_SIZE)>>

\* the view window of player p covers cell e
ViewCovers(p, e) ==
    /\ e[1] \in SearchRows(p.y - FIXED_VIEW_HEIGHT * Milli,
                           p.y + FIXED_VIEW_HEIGHT * Milli)
    /\ e[2] \in SearchCols(p.x - FIXED_VIEW_WIDTH * Milli,
                           p.x + FIXED_VIEW_WIDTH * Milli)

\* a batch_update of sent' reports the Player of c at most one cell away
\* from pos
ReportedNear(k, c, pos) ==
    \E i \in 1..Len(sent'[k].by) :
        /\ sent'[k].by[i] = PlayerRef(c)
        /\ Abs(sent'[k].msg.updates[i].x - pos.x) <= CELL_SIZE * Milli
        /\ Abs(sent'[k].msg.updates[i].y - pos.y) <= CELL_SIZE * Milli

\* the movement frame of a joined Player indexes it in the cell of its position
MovedIntoCell ==
    \A c \in Conns : \A pos \in MoveFramePositions :
        (IsIndexed(cells, PlayerRef(c)) /\ MovePlayer(c, pos)) =>
            <<CellOf(pos)[1], CellOf(pos)[2], PlayerRef(c)>> \in cells'

\* C26: after an accepted join and a player movement frame with an
\* in-bounds position the Player is indexed in the cell of that position,
\* and the next batch_update sent to another joined player whose view
\* window covers the cell contains this player at most one cell away.
C26_RoundTrip ==
    [][/\ MovedIntoCell
       /\ \A k \in 1..Len(sent') : \A c \in Conns :
             LET p == heap[PlayerRef(c)]
                 to == heap[PlayerRef(sent'[k].to)]
             IN (/\ sent'[k].msg.messageType = "batch_update"
                 /\ sent'[k].to # c
                 /\ p.frame_pos # <<>>
                 /\ sent'[k].to \notin p.batched
                 /\ ViewCovers(to, CellOf(p.frame_pos)))
                    => ReportedNear(k, c, p.frame_pos)]_vars

\* C26 (amended): as C26, for a Player that is not both dead and past its
\* grace window at the time of the view tick.
C26_RoundTripWhileNotExpiredDead ==
    [][/\ MovedIntoCell
       /\ \A k \in 1..Len(sent') : \A c \in Conns :
             LET p == heap[PlayerRef(c)]
                 to == heap[PlayerRef(sent'[k].to)]
             IN (/\ sent'[k].msg.messageType = "batch_update"
                 /\ sent'[k].to # c
                 /\ p.frame_pos # <<>>
                 /\ sent'[k].to \notin p.batched
                 /\ ViewCovers(to, CellOf(p.frame_pos))
                 /\ ~(p.is_dead /\ Expired(p, now)))
                    => ReportedNear(k, c, p.frame_pos)]_vars

\* C26 (witness): c1 has moved into another cell, where it is indexed, and
\* the view tick has sent c2 a batch_update with c1 in it.
C26_MovedPlayerReported ==
    LET p == heap[PlayerRef("c1")]
    IN /\ p.frame_pos # <<>>
       /\ CellOf(p.frame_pos) # <<0, 0>>
       /\ <<CellOf(p.frame_pos)[1], CellOf(p.frame_pos)[2], PlayerRef("c1")>>
             \in cells
       /\ \E k \in Batches :
             /\ sent[k].to = "c2"
             /\ PlayerRef("c1") \in Range(sent[k].by)

----------------------------------------------------------------------------
(* SpecCollide: Collide of a snowball with a player, for snowballs dead    *)
(* and alive, apart from the player, touching it and overlapping it.       *)

\* the player is at (50, 50) with size 20, the snowball has size 5: at
\* x = 25 and x = 75 the two touch, at x = 26 they overlap
CollideXs == {20, 25, 26, 50, 75}
CollideYs == {50, 60}

NoCollideCall == [op |-> "none", collided |-> FALSE]

InitCollide ==
    /\ now \in {ClockStart, ClockStart + PLAYER_TICK_MS}
    /\ \E x \in CollideXs, y \in CollideYs, is_dead \in BOOLEAN :
          heap = [r \in {PlayerRef("c1"), <<"s", "1">>} |->
                     IF r = PlayerRef("c1")
                     THEN [NewGameObject("player", ClientId["c1"]) EXCEPT
                              !.x = 50 * Milli, !.y = 50 * Milli,
                              !.size = 20 * Milli, !.life_length = LIFE_FOREVER]
                     ELSE [NewGameObject("snowball",
                                         SnowballId(ClientId["c2"], "1")) EXCEPT
                              !.x = x * Milli, !.y = y * Milli,
                              !.size = 5 * Milli, !.damage = 10,
                              !.time_update = ClockStart,
                              !.life_length = 5 * DEFAULT_LIFE_LENGTH,
                              !.is_dead = is_dead]]
    /\ cells = {}
    /\ conn = [c \in Conns |->
                  IF c = "c1" THEN [st |-> "open", worker |-> "w1"]
                  ELSE [st |-> "new", worker |-> "none"]]
    /\ thread_clients = [w \in Workers |-> IF w = "w1" THEN {"c1"} ELSE {}]
    /\ thread_objects = [w \in Workers |-> [i \in {} |-> 0]]
    /\ sent = <<>>
    /\ frames = 0
    /\ lock = NoLocks
    /\ call = [w \in Workers |-> NoCollideCall]
    /\ running = TRUE

\* obj->Collide(player_ptr), called by worker w
CollideCall(w) ==
    /\ LET o == heap[<<"s", "1">>]
           player == heap[PlayerRef("c1")]
       IN /\ heap' = [heap EXCEPT ![<<"s", "1">>] = Collide(o, player, now)]
          /\ call' = [call EXCEPT ![w] =
                         [op |-> "Collide",
                          collided |-> CollideHits(o, player, now)]]
    /\ UNCHANGED <<now, cells, conn, thread_clients, thread_objects, sent,
                   frames, lock, running>>

NextCollide == \E w \in Workers : CollideCall(w)

SpecCollide == InitCollide /\ [][NextCollide]_vars

\* the snowball is not dead and its circle and the player's overlap
\* (positions and sizes in whole units)
CollideMatch ==
    LET o == heap[<<"s", "1">>]
        player == heap[PlayerRef("c1")]
        dx == (player.x - o.x) \div Milli
        dy == (player.y - o.y) \div Milli
        size_sum == (player.size + o.size) \div Milli
    IN ~o.is_dead /\ dx * dx + dy * dy < size_sum * size_sum

\* C28: on a match (the object is not dead and overlaps the other) Collide
\* sets is_dead = true, time_update = now and life_length = 1000 and
\* returns true; otherwise it returns false and changes no field.
C28_CollideEffect ==
    [][\A w \in Workers :
          CollideCall(w) =>
             LET o == heap[<<"s", "1">>]
                 after == heap'[<<"s", "1">>]
             IN IF CollideMatch
                THEN /\ call'[w].collided
                     /\ after.is_dead
                     /\ after.time_update = now
                     /\ after.life_length = 1000
                     /\ after = [o EXCEPT !.is_dead = TRUE, !.time_update = now,
                                          !.life_length = 1000, !.died_at = now]
                ELSE ~call'[w].collided /\ after = o]_vars

\* C28 (witness): Collide has returned true for a snowball that overlapped
\* the player, and has started its grace window.
C28_Collided ==
    \E w \in Workers :
        /\ call[w].op = "Collide" /\ call[w].collided
        /\ heap[<<"s", "1">>].is_dead
        /\ heap[<<"s", "1">>].life_length = DEATH_GRACE_MS

----------------------------------------------------------------------------
(* SpecUpdate: Grid::Update on a snowball in flight and on a Player whose  *)
(* position a movement frame has overwritten: within the recorded cell,    *)
(* into another cell, out of the grid on the right and on the left.        *)

\* the clock step: 40 periods of the player timer
UpdateStep == 40 * PLAYER_TICK_MS
MaxUpdateSteps == 3

\* where the snowball was thrown and how fast (units per second)
UpdateXs == {50, 150, 1550}
UpdateVxs == {-500, 0, 125, 500}

\* the positions movement frames give the Player, which joined at (50, 50)
UpdatePlayerXs == {50, -50, 150, 1650}

NoUpdateCall == [op |-> "none", ref |-> <<>>]

\* the references Update is called with
UpdateRefs == {PlayerRef("c1"), <<"s", "1">>}

InitUpdate ==
    /\ now = ClockStart
    /\ \E x \in UpdateXs, vx \in UpdateVxs, px \in UpdatePlayerXs :
          LET player == [NewGameObject("player", ClientId["c1"]) EXCEPT
                            !.x = 50 * Milli, !.y = 50 * Milli,
                            !.size = 20 * Milli, !.time_update = ClockStart,
                            !.life_length = LIFE_FOREVER]
              snowball == [NewGameObject("snowball",
                                         SnowballId(ClientId["c2"], "1")) EXCEPT
                              !.x = x * Milli, !.y = 50 * Milli,
                              !.vx = vx * Milli, !.size = 5 * Milli,
                              !.time_update = ClockStart,
                              !.life_length = 5 * DEFAULT_LIFE_LENGTH]
              created == [heap |-> [r \in UpdateRefs |->
                                       IF r = PlayerRef("c1") THEN player
                                       ELSE snowball],
                          cells |-> {}]
              inserted == GridInsert(GridInsert(created, PlayerRef("c1")),
                                     <<"s", "1">>)
          IN /\ heap = [inserted.heap EXCEPT ![PlayerRef("c1")].x = px * Milli]
             /\ cells = inserted.cells
    /\ conn = [c \in Conns |->
                  IF c = "c1" THEN [st |-> "open", worker |-> "w1"]
                  ELSE [st |-> "new", worker |-> "none"]]
    /\ thread_clients = [w \in Workers |-> IF w = "w1" THEN {"c1"} ELSE {}]
    /\ thread_objects = [w \in Workers |-> [i \in {} |-> 0]]
    /\ sent = <<>>
    /\ frames = 0
    /\ lock = NoLocks
    /\ call = [w \in Workers |-> NoUpdateCall]
    /\ running = TRUE

\* the current_time of the call: 0 for a Player, the tick's time for a
\* snowball
UpdateTime(ref) == IF heap[ref].type = "player" THEN 0 ELSE now

\* grid->Update(obj, current_time), called by worker w
UpdateCall(w, ref) ==
    /\ LET updated == GridUpdate([heap |-> heap, cells |-> cells], ref,
                                 UpdateTime(ref))
       IN /\ heap' = updated.heap
          /\ cells' = updated.cells
    /\ call' = [call EXCEPT ![w] = [op |-> "Update", ref |-> ref]]
    /\ UNCHANGED <<now, conn, thread_clients, thread_objects, sent, frames,
                   lock, running>>

\* time passes
AdvanceUpdate ==
    /\ now < ClockStart + MaxUpdateSteps * UpdateStep
    /\ now' = now + UpdateStep
    /\ UNCHANGED <<heap, cells, conn, thread_clients, thread_objects, sent,
                   frames, lock, call, running>>

NextUpdate ==
    \/ \E w \in Workers, ref \in UpdateRefs : UpdateCall(w, ref)
    \/ AdvanceUpdate

SpecUpdate == InitUpdate /\ [][NextUpdate]_vars

\* the cell of the object's projected position, by floor division
ProjectedCell(ref) ==
    <<get_cur_y(heap[ref], UpdateTime(ref)) \div (CELL_SIZE * Milli),
      get_cur_x(heap[ref], UpdateTime(ref)) \div (CELL_SIZE * Milli)>>

RecordedCell(ref) == <<heap[ref].row, heap[ref].col>>

\* C29: Update is a no-op when the projected cell equals the object's
\* recorded cell or lies outside the grid: the object's fields and the
\* membership of every cell are unchanged.
C29_UpdateNoOp ==
    [][\A w \in Workers, ref \in UpdateRefs :
          (/\ UpdateCall(w, ref)
           /\ \/ ProjectedCell(ref) = RecordedCell(ref)
              \/ ~InGrid(ProjectedCell(ref)[1], ProjectedCell(ref)[2]))
          => /\ heap'[ref] = heap[ref]
             /\ cells' = cells]_vars

\* C30: on a cell transition Update removes the object from its old cell,
\* inserts it into the cell of its projected position, sets time_update =
\* now and decrements life_length by now - old time_update, so that
\* time_update + life_length is the same before and after the call.
C30_UpdateTransition ==
    [][\A w \in Workers, ref \in UpdateRefs :
          (/\ UpdateCall(w, ref)
           /\ ProjectedCell(ref) # RecordedCell(ref)
           /\ InGrid(ProjectedCell(ref)[1], ProjectedCell(ref)[2]))
          => LET obj == heap[ref]
                 after == heap'[ref]
                 current_time == UpdateTime(ref)
             IN /\ <<obj.row, obj.col, ref>> \notin cells'
                /\ CellsOf(cells', ref) = {ProjectedCell(ref)}
                /\ <<after.row, after.col>> = ProjectedCell(ref)
                /\ after.time_update = current_time
                /\ after.life_length =
                      obj.life_length - (current_time - obj.time_update)
                /\ after.time_update + after.life_length =
                      obj.time_update + obj.life_length]_vars

\* C30 (witness): an Update call has moved the snowball in flight from the
\* cell it was thrown in to another cell of the grid and re-anchored it.
C30_SnowballReanchored ==
    LET o == heap[<<"s", "1">>]
    IN /\ \E w \in Workers : call[w] = [op |-> "Update", ref |-> <<"s", "1">>]
       /\ o.time_update = now
       /\ now > ClockStart
       /\ o.x >= 0
       /\ o.life_length = 5 * DEFAULT_LIFE_LENGTH - (now - ClockStart)
       /\ CellsOf(cells, <<"s", "1">>) = {<<o.row, o.col>>}

----------------------------------------------------------------------------
(* Frames with a position outside the world *)

\* the fields of a Player a join frame can write
JoinFields(o) ==
    <<o.id, o.username, o.health, o.x, o.y, o.size, o.time_update,
      o.life_length>>

\* C31: a join frame rejected for an out-of-bounds position is a no-op on
\* the Player: its id, username, health, x, y, size, time_update and
\* life_length are what they were before the frame.
C31_RejectedJoinIsNoOp ==
    [][\A c \in Conns : \A pos \in ViewJoins(c) :
          (OutOfWorld(pos) /\ Join(c, pos)) =>
             JoinFields(heap'[PlayerRef(c)]) = JoinFields(heap[PlayerRef(c)])]_vars

\* C32: a player movement frame whose explicit position is outside the
\* world bounds is dropped: the Player's stored x, y and its Grid cell are
\* the same after the frame as before it.
C32_OutOfBoundsMovementDropped ==
    [][\A c \in Conns : \A pos \in MovePositions(c) :
          (OutOfWorld(pos) /\ MovePlayer(c, pos)) =>
             /\ heap'[PlayerRef(c)].x = heap[PlayerRef(c)].x
             /\ heap'[PlayerRef(c)].y = heap[PlayerRef(c)].y
             /\ CellsOf(cells', PlayerRef(c)) = CellsOf(cells, PlayerRef(c))]_vars

----------------------------------------------------------------------------
(* SpecThrow: sequences of snowball movement frames of one client with two *)
(* snowball ids, at positions in two cells and left and right of the grid, *)
(* and the object ticks between them.                                      *)

\* snowball movement frames: in cell (0,0) flying right, in cell (0,1) at
\* rest, left of the grid and more than a cell left of it flying right,
\* right of the grid
ThrowFrames ==
    {Throw(50, 250, 10, 5000), Throw(150, 0, 10, 5000),
     Throw(-50, 250, 10, 5000), Throw(-150, 250, 10, 5000),
     Throw(GRID_WIDTH + 50, 0, 10, 5000)}

\* the first snowball id comes with every frame, the second with one
ThrowsOf(seq) == IF seq = "1" THEN ThrowFrames ELSE {Throw(150, 0, 10, 5000)}

NextThrow ==
    \/ \E seq \in SnowballSeqs : \E t \in ThrowsOf(seq) :
          ThrowSnowball("c2", t, seq)
    \/ \E w \in Workers : ObjectTick(w)
    \/ AdvanceTtl

SpecThrow == InitView /\ [][NextThrow]_vars

\* C33: a snowball movement frame with an id absent from the worker's map
\* creates one Snowball and inserts it into the Grid once; a frame with an
\* id in the map only overwrites that Snowball's fields and inserts
\* nothing; the map holds one Snowball per id and the handler never makes a
\* snowball a member of a second cell.
C33_SnowballInsertedOnce ==
    [][\A seq \in SnowballSeqs : \A t \in ThrowsOf(seq) :
          ThrowSnowball("c2", t, seq) =>
             LET w == conn["c2"].worker
                 id == SnowballId(ClientId["c2"], seq)
                 objs == thread_objects[w]
                 after == thread_objects'[w]
             IN /\ \A r \in DOMAIN heap' : Cardinality(CellsOf(cells', r)) <= 1
                /\ \A v \in Workers \ {w} : thread_objects'[v] = thread_objects[v]
                /\ IF id \notin DOMAIN objs
                   THEN /\ DOMAIN after = DOMAIN objs \cup {id}
                        /\ \A i \in DOMAIN objs : after[i] = objs[i]
                        /\ after[id] \notin DOMAIN heap
                        /\ DOMAIN heap' = DOMAIN heap \cup {after[id]}
                        /\ \A r \in DOMAIN heap : heap'[r] = heap[r]
                        /\ {e \in cells' : e[3] # after[id]} = cells
                        /\ ~OutOfWorld(t) =>
                              CellsOf(cells', after[id]) =
                                 {<<t.y \div (CELL_SIZE * Milli),
                                    t.x \div (CELL_SIZE * Milli)>>}
                   ELSE /\ after = objs
                        /\ cells' = cells
                        /\ DOMAIN heap' = DOMAIN heap
                        /\ \A r \in DOMAIN heap \ {objs[id]} : heap'[r] = heap[r]
                        /\ heap'[objs[id]] =
                              SnowballFields(heap[objs[id]], t, now)]_vars

\* C33 (witness): a frame has overwritten the position of a snowball that
\* is in the map and in the Grid with a position in another cell; the
\* snowball is a member of the cell it was inserted into and of no other.
C33_OverwrittenInPlace ==
    \E w \in Workers : \E id \in DOMAIN thread_objects[w] :
        LET r == thread_objects[w][id]
        IN /\ Cardinality(DOMAIN thread_objects[w]) = 2
           /\ CellsOf(cells, r) = {<<0, 0>>}
           /\ heap[r].x = 150 * Milli
           /\ heap[r].time_update = now

----------------------------------------------------------------------------
(* The object tick, under SpecTtl *)

\* C34: when the object tick returns, the worker's map holds no snowball
\* that was dead or expired at the tick's timestamp, every snowball the
\* tick removed from the map is a member of no Grid cell, and the snowballs
\* that were neither dead nor expired are still in the map.
C34_ObjectTickRemovesDeadAndExpired ==
    [][\A w \in Workers :
          ObjectTick(w) =>
             LET objs == thread_objects[w]
                 gone == {id \in DOMAIN objs :
                             \/ heap[objs[id]].is_dead
                             \/ now - heap[objs[id]].time_update
                                   > heap[objs[id]].life_length}
             IN /\ DOMAIN thread_objects'[w] = DOMAIN objs \ gone
                /\ \A id \in DOMAIN objs \ gone : thread_objects'[w][id] = objs[id]
                /\ \A id \in gone : ~IsIndexed(cells', objs[id])]_vars

\* C34 (witness): a snowball has hit the Player, which made it dead, and
\* the object tick has since taken it out of the map and out of the Grid.
C34_DeadSnowballRemoved ==
    /\ PlayerRef("c1") \in DOMAIN heap
    /\ heap[PlayerRef("c1")].health < 100
    /\ \A w \in Workers : DOMAIN thread_objects[w] = {}
    /\ \A e \in cells : e[3][1] = "p"

----------------------------------------------------------------------------
(* Player movement frames, under SpecMove *)

\* C35: after a player movement frame with timeUpdate = T and an in-bounds
\* position {x,y} the Player's time_update is T and its stored position is
\* {x,y}, when the position is in the Player's current cell and when it is
\* in a different cell.  (MovePlayer sends the frame with T = now.)
C35_MovementSetsAnchor ==
    [][\A pos \in MoveFramePositions :
          (MovePlayer("c1", pos) /\ ~OutOfWorld(pos)) =>
             /\ heap'[PlayerRef("c1")].time_update = now
             /\ heap'[PlayerRef("c1")].x = pos.x
             /\ heap'[PlayerRef("c1")].y = pos.y]_vars

----------------------------------------------------------------------------
(* SpecRace: the view ticks of two workers, each with one Player, at the   *)
(* collision test of the same snowball.  Collide reads is_dead and writes  *)
(* it later, with no lock: a worker is between the two at pc in_collide.   *)

\* where the snowball is: overlapping both Players, the second only, none
RaceXs == {55, 80, 300}
RaceDamages == {10, 100}

\* the snowball's id names neither Player as its owner
RaceSnowballId == SnowballId(<<"Z">>, "1")

NoRaceCall == [op |-> "none", pc |-> "idle", collided |-> 0]

\* c1 on w1 has joined at (50, 50), c2 on w2 at (60, 50); a snowball of
\* w1's map lies at rest near them
InitRace ==
    /\ now = ClockStart
    /\ \E x \in RaceXs, damage \in RaceDamages :
          LET opened == Store([r \in {PlayerRef(c) : c \in Conns} |->
                                  NewGameObject("player", Str_unknown)], {})
              one == handleJoin(opened, PlayerRef("c1"), ClientId["c1"],
                                ClientId["c1"], Pos(50, 50), 100, 20 * Milli,
                                ClockStart)
              two == handleJoin(one, PlayerRef("c2"), ClientId["c2"],
                                ClientId["c2"], Pos(60, 50), 100, 20 * Milli,
                                ClockStart)
              thrown == handleMovementSnowball(two, [i \in {} |-> 0],
                                               RaceSnowballId,
                                               Throw(x, 0, damage, 5000),
                                               ClockStart)
          IN /\ heap = thrown.st.heap
             /\ cells = thrown.st.cells
             /\ thread_objects = [w \in Workers |->
                                     IF w = "w1" THEN thrown.objs
                                     ELSE [i \in {} |-> 0]]
    /\ conn = [c \in Conns |->
                  [st |-> "open", worker |-> IF c = "c1" THEN "w1" ELSE "w2"]]
    /\ thread_clients = [w \in Workers |-> IF w = "w1" THEN {"c1"} ELSE {"c2"}]
    /\ sent = <<>>
    /\ frames = 0
    /\ lock = NoLocks
    /\ call = [w \in Workers |-> NoRaceCall]
    /\ running = TRUE

RaceSnowball == thread_objects["w1"][RaceSnowballId]

\* UpdatePlayerView of worker w for its client c reaches obj->Collide for
\* the snowball and Collide tests is_dead
CollideEnter(w, c) ==
    /\ c \in thread_clients[w]
    /\ call[w].pc = "idle"
    /\ LET obj == heap[RaceSnowball]
           player == heap[PlayerRef(c)]
       IN /\ IsIndexed(cells, RaceSnowball)
          /\ ~IsSelf(obj, player)
          /\ ~IsDeadAndExpired(obj, now)
          /\ obj.damage # 0
          /\ ExtractPlayerId(obj.id) # player.id
          /\ call' = [call EXCEPT ![w].op = "Collide",
                                  ![w].pc = IF obj.is_dead THEN "idle"
                                            ELSE "in_collide"]
    /\ sent' = <<>>
    /\ UNCHANGED <<now, heap, cells, conn, thread_clients, thread_objects,
                   frames, lock, running>>

\* the rest of Collide for a worker that has found is_dead false, and the
\* Hurt call that follows when Collide returns true
CollideFinish(w, c) ==
    /\ c \in thread_clients[w]
    /\ call[w].pc = "in_collide"
    /\ LET read == [heap[RaceSnowball] EXCEPT !.is_dead = FALSE]
           player == heap[PlayerRef(c)]
           hit == CollideHits(read, player, now)
           hurt == Hurt(player, read.damage, now)
       IN IF hit
          THEN /\ heap' = [heap EXCEPT
                              ![RaceSnowball] = Collide(read, player, now),
                              ![PlayerRef(c)] = hurt]
               /\ sent' = <<SendMessageToClient(c, hurt, now, "hit")>>
               /\ call' = [call EXCEPT ![w].pc = "idle", ![w].collided = @ + 1]
          ELSE /\ sent' = <<>>
               /\ call' = [call EXCEPT ![w].pc = "idle"]
               /\ UNCHANGED heap
    /\ UNCHANGED <<now, cells, conn, thread_clients, thread_objects, frames,
                   lock, running>>

NextRace ==
    \/ \E w \in Workers, c \in Conns : CollideEnter(w, c)
    \/ \E w \in Workers, c \in Conns : CollideFinish(w, c)
    \/ AdvanceClock

SpecRace == InitRace /\ [][NextRace]_vars

\* C36: a snowball inflicts damage at most once: over any execution, view
\* ticks of different workers that process the same snowball concurrently
\* included, Collide returns true for one snowball object at most once, so
\* at most one Hurt call is made because of it.
C36_SnowballHitsAtMostOnce ==
    call["w1"].collided + call["w2"].collided <= 1

----------------------------------------------------------------------------
(* SpecExpiry: a Player in the path of a snowball that outlives its        *)
(* lifeLength in the Grid until the next object tick, and next to a        *)
(* snowball that hits it at once and stays in the Grid, dead, after its    *)
(* grace window.                                                           *)

\* snowball movement frames of c2: one that reaches the Player of c1 after
\* one clock step, when its lifeLength is over, one thrown at the Player,
\* and one thrown left of the grid that flies into it
ExpiryThrows ==
    {Throw(50, 250, 10, 300), Throw(150, 0, 10, 5000),
     Throw(-50, 250, 10, 5000)}

NextExpiry ==
    \/ \E pos \in TtlJoins : Join("c1", pos)
    \/ \E t \in ExpiryThrows : ThrowSnowball("c2", t, "1")
    \/ \E w \in Workers : ViewTick(w)
    \/ \E w \in Workers : ObjectTick(w)
    \/ AdvanceTtl

SpecExpiry == InitView /\ [][NextExpiry]_vars

\* the snowballs of the workers' maps
MapSnowballs == MapRefs(thread_objects)

\* the view tick sends a hit frame that is due to the snowball r
HitBy(r) ==
    \E k \in 1..Len(sent') :
        /\ sent'[k].msg.messageType = "hit"
        /\ sent'[k].by = heap[r].id

\* C37, as stated: a snowball that is expired at the timestamp of a view
\* tick (now - time_update > life_length) damages no player in that tick,
\* also when the object tick has not yet removed it from the Grid.
C37_ExpiredSnowballHitsNobody ==
    [][\A w \in Workers : \A r \in MapSnowballs :
          (ViewTick(w) /\ now - heap[r].time_update > heap[r].life_length)
             => ~HitBy(r)]_vars

\* C37, amended: a snowball that is dead at the timestamp of a view tick,
\* inside its grace window or past it, damages no player in that tick and
\* is not changed by it.
C37_DeadSnowballHitsNobody ==
    [][\A w \in Workers : \A r \in MapSnowballs :
          (ViewTick(w) /\ heap[r].is_dead)
             => /\ ~HitBy(r)
                /\ heap'[r].time_update = heap[r].time_update
                /\ heap'[r].life_length = heap[r].life_length
                /\ heap'[r].hit = heap[r].hit]_vars

\* C37 (witness): a snowball that is dead and past its grace window is
\* still in the Grid, over a Player that is not its owner and is in the
\* client set of a worker.
C37_DeadExpiredSnowballOverPlayer ==
    \E r \in MapSnowballs : \E w \in Workers : \E c \in thread_clients[w] :
        /\ heap[r].is_dead
        /\ Expired(heap[r], now)
        /\ IsIndexed(cells, r)
        /\ IsIndexed(cells, PlayerRef(c))
        /\ ExtractPlayerId(heap[r].id) # heap[PlayerRef(c)].id
        /\ CollideHitsWhenDead(heap[r], heap[PlayerRef(c)], now)

----------------------------------------------------------------------------
(* Snowballs in the Grid and in the maps *)

\* C38: no snowball is leaked in the Grid: in every reachable state every
\* Snowball that is a member of a Grid cell is an entry of the snowball map
\* of a worker, so that an object tick can still remove it.
C38_NoSnowballLeakedInGrid ==
    \A e \in cells :
        e[3][1] = "s" =>
            /\ e[3] \in DOMAIN heap
            /\ \E w \in Workers :
                  /\ heap[e[3]].id \in DOMAIN thread_objects[w]
                  /\ thread_objects[w][heap[e[3]].id] = e[3]
                  /\ \A v \in Workers \ {w} :
                        \A id \in DOMAIN thread_objects[v] :
                            thread_objects[v][id] # e[3]

\* C38 (witness): a snowball that was thrown left of the grid, has flown
\* into another cell and has been re-anchored there by Grid::Update is in
\* the Grid and in the map of its worker.
C38_SnowballInGridAndMap ==
    \E w \in Workers : \E id \in DOMAIN thread_objects[w] :
        LET r == thread_objects[w][id]
        IN /\ heap[r].frame_time_update # heap[r].time_update
           /\ ~heap[r].is_dead
           /\ heap[r].vx = 250 * Milli
           /\ heap[r].life_length > DEFAULT_LIFE_LENGTH
           /\ CellsOf(cells, r) = {<<0, 1>>}

----------------------------------------------------------------------------
(* SpecSweep: snowball movement frames and object ticks, where each object *)
(* tick leaves a note in the worker's call record, so that a tick that     *)
(* changes neither the map nor the Grid is a step all the same.            *)

NotedCall == [IdleCall EXCEPT !.op = "HandleThreadObjects"]

\* the object timer fires on worker w
ObjectTickNoted(w) ==
    /\ LET r == HandleThreadObjects(Store(heap, cells), thread_objects[w], now)
           objs == [thread_objects EXCEPT ![w] = r.objs]
       IN /\ thread_objects' = objs
          /\ cells' = r.st.cells
          /\ heap' = Live(r.st.heap, r.st.cells, conn, objs)
    /\ call' = [call EXCEPT ![w] = IF @ = NotedCall THEN IdleCall ELSE NotedCall]
    /\ sent' = <<>>
    /\ UNCHANGED <<now, conn, thread_clients, frames, lock, running>>

NextSweep ==
    \/ \E seq \in SnowballSeqs : \E t \in ThrowsOf(seq) :
          ThrowSnowball("c2", t, seq)
    \/ \E w \in Workers : ObjectTickNoted(w)
    \/ AdvanceTtl

SpecSweep == InitView /\ [][NextSweep]_vars

\* C39: after an object tick every snowball that remains in the worker's
\* map and whose projected position at the tick's timestamp lies inside the
\* world rectangle is a member of the Grid cell of that position, also a
\* snowball that was created outside the world, never inserted, and has
\* moved into cell (0,0).
C39_MappedSnowballIsInItsCell ==
    [][\A w \in Workers :
          ObjectTickNoted(w) =>
             \A id \in DOMAIN thread_objects'[w] :
                 LET r == thread_objects'[w][id]
                     projected == [x |-> get_cur_x(heap[r], now),
                                   y |-> get_cur_y(heap[r], now)]
                 IN ~OutOfWorld(projected) =>
                       <<projected.y \div (CELL_SIZE * Milli),
                         projected.x \div (CELL_SIZE * Milli), r>> \in cells']_vars

----------------------------------------------------------------------------
(* Health across a view tick *)

\* C40: damage never heals: across any view tick, for every snowball
\* damage a client supplies, negative values included, a Player's health
\* after the tick is at most its health before the tick, and is not
\* negative.
C40_DamageNeverHeals ==
    [][\A w \in Workers :
          ViewTick(w) =>
             \A c \in Conns :
                 (PlayerRef(c) \in DOMAIN heap /\ PlayerRef(c) \in DOMAIN heap') =>
                    /\ heap'[PlayerRef(c)].health <= heap[PlayerRef(c)].health
                    /\ heap'[PlayerRef(c)].health >= 0]_vars

====
